---- MODULE Spec2Model ----
(***************************************************************************)
(* The request-handling core of the Pencil web framework.                  *)
(*                                                                         *)
(* The application object (src/src/pencil/app.rs) owns the hook lists, the *)
(* error-handler registry and the view table; handle_request takes one     *)
(* request through preprocess_request, dispatch_request, the error         *)
(* handlers, make_response and process_response.  Strings are TLA+         *)
(* strings, push_str is \o; what the code prints with println! and the     *)
(* calls it makes to views are recorded, in order, in `events`.            *)
(***************************************************************************)
EXTENDS Naturals, Sequences, FiniteSets, TLC

VARIABLES
    before_request_funcs,   \* Pencil.before_request_funcs : Vec<String>
    after_request_funcs,    \* Pencil.after_request_funcs : Vec<String>
    teardown_request_funcs, \* Pencil.teardown_request_funcs : Vec<String>
    error_handlers,         \* Pencil.error_handlers : HashMap<&str, PencilResult>
    view_functions,         \* Pencil.view_functions: the endpoints that have a view
    url_map,                \* Pencil.url_map: the endpoints that have a rule
    pc,                     \* where the request in flight is in handle_request
    request,                \* the request in flight
    dispatched,             \* what dispatch_request returned
    rv,                     \* rv of full_dispatch_request: the result after handle_user_error
    fd,                     \* what full_dispatch_request returned
    response,               \* the Response handle_request returned
    escaped,                \* the error that left handle_request instead
    events,                 \* println! output and view calls of the request, in order
    used,                   \* the error_handlers keys whose handler was fetched
    fs                      \* the regular files of the file system: path and bytes

vars == <<before_request_funcs, after_request_funcs, teardown_request_funcs,
          error_handlers, view_functions, url_map, pc, request, dispatched,
          rv, fd, response, escaped, events, used, fs>>

app == <<before_request_funcs, after_request_funcs, teardown_request_funcs,
         error_handlers, view_functions, url_map>>

---------------------------------------------------------------------------
(* Bounds of the model. *)

\* registrations of hooks, over the three hook lists together
MaxHooks == 2
\* calls of register_error_handler
MaxHandlers == 2
\* entries of a Headers list
MaxHeaders == 3
\* the value given to set_content_length
MaxContentLength == 2
\* bytes of a file on disk; the positions named by a range go one beyond
MaxFileLen == 4

(* The values the inputs are drawn from. *)
HookNames == {"h1", "h2"}
Endpoints == {"index"}
Codes == {404, 500}
UserDescs == {"boom", "Not Found"}
Locations == {"/index/"}
RedirectCodes == {301, 302}

\* Option<T>: None is the empty tuple, Some(x) the one-element tuple
None == <<>>
Some(x) == <<x>>

---------------------------------------------------------------------------
(* HTTP status names: hyper's StatusCode::canonical_reason. *)

get_name_by_http_code(code) ==
    CASE code = 200 -> Some("OK")
      [] code = 301 -> Some("Moved Permanently")
      [] code = 302 -> Some("Found")
      [] code = 404 -> Some("Not Found")
      [] code = 500 -> Some("Internal Server Error")
      [] OTHER -> None

---------------------------------------------------------------------------
(* Headers: an ordered list of (key, value), keys compared in lower case. *)

to_ascii_lower(k) ==
    CASE k = "Content-Type" -> "content-type"
      [] k = "Content-Length" -> "content-length"
      [] k = "Location" -> "location"
      [] OTHER -> k

\* Headers::new(None)
HeadersNew == <<>>

\* a lookup that compares the stored key as it is
RECURSIVE HeadersGetFromExact(_, _, _)
HeadersGetFromExact(list, ikey, i) ==
    IF i > Len(list) THEN None
    ELSE IF list[i][1] = ikey THEN Some(list[i][2])
    ELSE HeadersGetFromExact(list, ikey, i + 1)

RECURSIVE HeadersGetFrom(_, _, _)
HeadersGetFrom(list, ikey, i) ==
    IF i > Len(list) THEN None
    ELSE IF to_ascii_lower(list[i][1]) = ikey THEN Some(list[i][2])
    ELSE HeadersGetFrom(list, ikey, i + 1)

HeadersGet(list, key) == HeadersGetFrom(list, to_ascii_lower(key), 1)

\* the loop of Headers::get_all
RECURSIVE HeadersGetAllFrom(_, _, _)
HeadersGetAllFrom(list, ikey, i) ==
    IF i > Len(list) THEN <<>>
    ELSE IF to_ascii_lower(list[i][1]) = ikey
         THEN <<list[i][2]>> \o HeadersGetAllFrom(list, ikey, i + 1)
    ELSE HeadersGetAllFrom(list, ikey, i + 1)

HeadersGetAll(list, key) == HeadersGetAllFrom(list, to_ascii_lower(key), 1)

\* Headers::iter
HeadersIter(list) == list

\* Headers::add
HeadersAdd(list, key, value) == Append(list, <<key, value>>)

\* the loop of Headers::remove: st = <<newlist, rv>>
RECURSIVE HeadersRemoveLoop(_, _, _, _)
HeadersRemoveLoop(list, ikey, i, st) ==
    IF i > Len(list) THEN st
    ELSE IF to_ascii_lower(list[i][1]) # ikey
         THEN HeadersRemoveLoop(list, ikey, i + 1, <<Append(st[1], list[i]), st[2]>>)
    ELSE IF st[2] # None
         THEN HeadersRemoveLoop(list, ikey, i + 1, <<st[1], Some(list[i][2])>>)
    ELSE HeadersRemoveLoop(list, ikey, i + 1, st)

\* Headers::remove: the list it leaves and the value it returns
HeadersRemove(list, key) ==
    LET st == HeadersRemoveLoop(list, to_ascii_lower(key), 1, <<(<<>>), None>>)
    IN  [list |-> st[1], rv |-> st[2]]

\* the loop of Headers::set: st = <<newlist, key_existed>>
RECURSIVE HeadersSetLoop(_, _, _, _, _)
HeadersSetLoop(list, key, value, i, st) ==
    IF i > Len(list) THEN st
    ELSE IF to_ascii_lower(list[i][1]) # to_ascii_lower(key)
         THEN HeadersSetLoop(list, key, value, i + 1, <<Append(st[1], list[i]), st[2]>>)
    ELSE IF ~st[2]
         THEN HeadersSetLoop(list, key, value, i + 1, <<Append(st[1], <<key, value>>), TRUE>>)
    ELSE HeadersSetLoop(list, key, value, i + 1, st)

\* set that drops every entry of the key and appends the new one
HeadersSetAppend(list, key, value) ==
    Append(SelectSeq(list, LAMBDA kv : to_ascii_lower(kv[1]) # to_ascii_lower(key)),
           <<key, value>>)

HeadersSet(list, key, value) ==
    LET st == HeadersSetLoop(list, key, value, 1, <<(<<>>), FALSE>>)
    IN  IF ~st[2] THEN Append(st[1], <<key, value>>) ELSE st[1]

---------------------------------------------------------------------------
(* Response. *)

\* uint::to_string
Digit(d) ==
    CASE d = 0 -> "0" [] d = 1 -> "1" [] d = 2 -> "2" [] d = 3 -> "3" [] d = 4 -> "4"
      [] d = 5 -> "5" [] d = 6 -> "6" [] d = 7 -> "7" [] d = 8 -> "8" [] d = 9 -> "9"

RECURSIVE to_string(_)
to_string(n) == IF n < 10 THEN Digit(n) ELSE to_string(n \div 10) \o Digit(n % 10)

\* Response::new of the response type the dispatcher appends to (body: String)
ResponseNew(body) ==
    LET h1 == HeadersSet(<<>>, "Content-Type", "text/plain; charset=utf-8")
        h2 == HeadersSet(h1, "Content-Length", to_string(Len(body)))
    IN  [status_code |-> 200, headers |-> h2, body |-> body]

status_name(r) ==
    IF get_name_by_http_code(r.status_code) = None THEN "UNKNOWN"
    ELSE get_name_by_http_code(r.status_code)[1]

\* a mimetype is handled as its sequence of characters
RECURSIVE Str(_)
Str(cs) == IF cs = <<>> THEN "" ELSE cs[1] \o Str(Tail(cs))

starts_with(s, p) == Len(p) <= Len(s) /\ SubSeq(s, 1, Len(p)) = p
ends_with(s, p) == Len(p) <= Len(s) /\ SubSeq(s, Len(s) - Len(p) + 1, Len(s)) = p
contains(s, p) ==
    \E i \in 1..(Len(s) + 1) : i + Len(p) - 1 <= Len(s) /\ SubSeq(s, i, i + Len(p) - 1) = p

get_content_type(mimetype, charset) ==
    IF (starts_with(mimetype, <<"t","e","x","t","/">>)
          \/ mimetype = <<"a","p","p","l","i","c","a","t","i","o","n","/","x","m","l">>
          \/ (starts_with(mimetype, <<"a","p","p","l","i","c","a","t","i","o","n","/">>)
                /\ ends_with(mimetype, <<"+","x","m","l">>)))
        /\ ~contains(mimetype, <<"c","h","a","r","s","e","t">>)
    THEN mimetype \o <<";"," ","c","h","a","r","s","e","t","=">> \o charset
    ELSE mimetype

\* set_content_type on a header map created anew
set_content_type_fresh(r, mimetype) ==
    [r EXCEPT !.headers =
        HeadersSet(<<>>, "Content-Type", Str(get_content_type(mimetype, <<"U","T","F","-","8">>)))]

set_content_type(r, mimetype) ==
    [r EXCEPT !.headers =
        HeadersSet(@, "Content-Type", Str(get_content_type(mimetype, <<"U","T","F","-","8">>)))]

set_content_length(r, value) ==
    [r EXCEPT !.headers = HeadersSet(@, "Content-Length", to_string(value))]

\* Response::set_cookie: typed_insert of the Set-Cookie header
set_cookie(r, cookie) ==
    [r EXCEPT !.headers = HeadersSet(@, "Set-Cookie", cookie)]

\* Response::new(Body) followed by set_content_length: From<String> for Response
ResponseFrom(s) ==
    set_content_length(
        [status_code |-> 200,
         headers |-> HeadersSet(<<>>, "Content-Type", "text/html; charset=UTF-8"),
         body |-> s],
        Len(s))

\* helpers::redirect
redirect(location, code) ==
    LET r0 == ResponseFrom(
                "<!DOCTYPE HTML PUBLIC \"-//W3C//DTD HTML 3.2 Final//EN\">\n"
                \o "<title>Redirecting...</title>\n<h1>Redirecting...</h1>\n"
                \o "<p>You should be redirected automatically to target URL: \n"
                \o "<a href=\"" \o location \o "\">" \o location
                \o "</a>.  If not click the link.\n")
        r1 == [r0 EXCEPT !.status_code = code]
        r2 == set_content_type(r1, <<"t","e","x","t","/","h","t","m","l">>)
    IN  [r2 EXCEPT !.headers = HeadersSet(@, "Location", location)]

---------------------------------------------------------------------------
(* PencilValue, PencilError, PencilResult. *)

PenString(s) == [tag |-> "PenString", s |-> s]
PenResponse(r) == [tag |-> "PenResponse", r |-> r]

PenHTTPError(code) == [kind |-> "PenHTTPError", code |-> code]
PenUserError(desc) == [kind |-> "PenUserError", desc |-> desc]

Ok(v) == [ok |-> TRUE, v |-> v]
Err(e) == [ok |-> FALSE, e |-> e]

\* helpers::abort
abort(code) == Err(PenHTTPError(code))

\* Error::description of an HTTP error (its status name) and of a user error
description(e) ==
    IF e.kind = "PenHTTPError"
    THEN (IF get_name_by_http_code(e.code) = None THEN "UNKNOWN"
          ELSE get_name_by_http_code(e.code)[1])
    ELSE e.desc

\* HTTPError::to_response: the default mapping of an HTTP error
to_response(code) ==
    [ResponseNew(description(PenHTTPError(code))) EXCEPT !.status_code = code]

InternalServerError == 500

\* helpers::make_response: a view's value as a Response
make_response(value) ==
    IF value.tag = "PenResponse" THEN value.r ELSE ResponseNew(value.s)

---------------------------------------------------------------------------
(* The routing collaborator: what url_map.bind(..) resolves a request to. *)

MatchedRule(endpoint) == [m |-> "MatchedRule", endpoint |-> endpoint]
MatchedRedirect(location, code) == [m |-> "MatchedRedirect", location |-> location, code |-> code]
MatchedError(code) == [m |-> "MatchedError", code |-> code]

Routes(rules) ==
    {MatchedRule(ep) : ep \in rules}
      \cup {MatchedRedirect(l, c) : l \in Locations, c \in RedirectCodes}
      \cup {MatchedError(404)}

\* what a view function may return
ViewResults ==
    {Ok(PenString("hello")), Ok(PenResponse(redirect("/index/", 302)))}
      \cup {abort(c) : c \in Codes}
      \cup {Err(PenUserError(d)) : d \in UserDescs}

\* what may be registered as an error handler
HandlerKeys == {"Not Found", "Internal Server Error", "boom"}
HandlerResults ==
    {Ok(PenString("handled")), abort(404), Err(PenUserError("boom"))}

---------------------------------------------------------------------------
(* Bytes and strings of the request side.  A byte is a number 0..255 and a  *)
(* String is its UTF-8 byte sequence.  In a multipart body the numbers from *)
(* 256 up stand for the byte runs of the framing: the delimiter line of the *)
(* boundary, the closing delimiter and the header block of a part.          *)

RECURSIVE Flatten(_)
Flatten(seqs) == IF seqs = <<>> THEN <<>> ELSE Head(seqs) \o Flatten(Tail(seqs))

\* str::from_utf8: the length of the well-formed sequence starting at i, 0 if none
IsCont(bs, i) == i <= Len(bs) /\ bs[i] >= 128 /\ bs[i] <= 191

Utf8Len(bs, i) ==
    LET b == bs[i]
    IN  IF b < 128 THEN 1
        ELSE IF b >= 194 /\ b <= 223 /\ IsCont(bs, i + 1) THEN 2
        ELSE IF b >= 224 /\ b <= 239 /\ IsCont(bs, i + 1) /\ IsCont(bs, i + 2)
                /\ (b = 224 => bs[i + 1] >= 160) /\ (b = 237 => bs[i + 1] <= 159) THEN 3
        ELSE IF b >= 240 /\ b <= 244 /\ IsCont(bs, i + 1) /\ IsCont(bs, i + 2)
                /\ IsCont(bs, i + 3)
                /\ (b = 240 => bs[i + 1] >= 144) /\ (b = 244 => bs[i + 1] <= 143) THEN 4
        ELSE 0

RECURSIVE ValidUtf8From(_, _)
ValidUtf8From(bs, i) ==
    IF i > Len(bs) THEN TRUE
    ELSE IF Utf8Len(bs, i) = 0 THEN FALSE
    ELSE ValidUtf8From(bs, i + Utf8Len(bs, i))

\* String::from_utf8: Ok(the string) or Err(FromUtf8Error)
from_utf8(bs) ==
    IF ValidUtf8From(bs, 1) THEN [ok |-> TRUE, v |-> bs]
    ELSE [ok |-> FALSE, e |-> "FromUtf8Error"]

\* String::from_utf8_lossy: every byte that starts no well-formed sequence
\* becomes U+FFFD
RECURSIVE from_utf8_lossy_from(_, _)
from_utf8_lossy_from(bs, i) ==
    IF i > Len(bs) THEN <<>>
    ELSE IF Utf8Len(bs, i) = 0 THEN <<239, 191, 189>> \o from_utf8_lossy_from(bs, i + 1)
    ELSE SubSeq(bs, i, i + Utf8Len(bs, i) - 1) \o from_utf8_lossy_from(bs, i + Utf8Len(bs, i))

from_utf8_lossy(bs) == from_utf8_lossy_from(bs, 1)

---------------------------------------------------------------------------
(* MultiDict: the pairs in the order they were added. *)

MultiDictNew == <<>>
MultiDictAdd(d, k, v) == Append(d, <<k, v>>)

---------------------------------------------------------------------------
(* url::form_urlencoded::parse *)

\* the index of the first b at or after i, Len(bs) + 1 if there is none
RECURSIVE IndexOf(_, _, _)
IndexOf(bs, b, i) ==
    IF i > Len(bs) THEN Len(bs) + 1
    ELSE IF bs[i] = b THEN i
    ELSE IndexOf(bs, b, i + 1)

\* the pieces between the separators b, from i on
RECURSIVE SplitOn(_, _, _)
SplitOn(bs, b, i) ==
    LET j == IndexOf(bs, b, i)
    IN  IF j > Len(bs) THEN << SubSeq(bs, i, Len(bs)) >>
        ELSE << SubSeq(bs, i, j - 1) >> \o SplitOn(bs, b, j + 1)

HexVal(b) ==
    IF b >= 48 /\ b <= 57 THEN b - 48
    ELSE IF b >= 65 /\ b <= 70 THEN b - 55
    ELSE IF b >= 97 /\ b <= 102 THEN b - 87
    ELSE 16

\* percent decoding that leaves '+' as it is
RECURSIVE percent_decode_plus_kept(_, _)
percent_decode_plus_kept(bs, i) ==
    IF i > Len(bs) THEN <<>>
    ELSE IF bs[i] = 37 /\ i + 2 <= Len(bs) /\ HexVal(bs[i + 1]) < 16 /\ HexVal(bs[i + 2]) < 16
         THEN << 16 * HexVal(bs[i + 1]) + HexVal(bs[i + 2]) >>
                \o percent_decode_plus_kept(bs, i + 3)
    ELSE << bs[i] >> \o percent_decode_plus_kept(bs, i + 1)

\* '+' is a space; %XY with two hex digits is the byte XY; the rest stays
RECURSIVE percent_decode(_, _)
percent_decode(bs, i) ==
    IF i > Len(bs) THEN <<>>
    ELSE IF bs[i] = 43 THEN <<32>> \o percent_decode(bs, i + 1)
    ELSE IF bs[i] = 37 /\ i + 2 <= Len(bs) /\ HexVal(bs[i + 1]) < 16 /\ HexVal(bs[i + 2]) < 16
         THEN << 16 * HexVal(bs[i + 1]) + HexVal(bs[i + 2]) >> \o percent_decode(bs, i + 3)
    ELSE << bs[i] >> \o percent_decode(bs, i + 1)

urldecode(bs) == from_utf8_lossy(percent_decode(bs, 1))

\* one name=value piece as a pair
UrlPair(piece) ==
    LET j == IndexOf(piece, 61, 1)
    IN  << urldecode(SubSeq(piece, 1, j - 1)), urldecode(SubSeq(piece, j + 1, Len(piece))) >>

\* the pairs of the body, in order; empty pieces between '&' are skipped
form_urlencoded_parse(bs) ==
    LET pieces == SelectSeq(SplitOn(bs, 38, 1), LAMBDA piece : piece # <<>>)
    IN  [i \in 1..Len(pieces) |-> UrlPair(pieces[i])]

---------------------------------------------------------------------------
(* The body stream of a request and helpers::load_body. *)

\* chunks: what is still to come; fails: the connection drops after them;
\* reads: how often the stream was drained
BodyStream(chunks, fails) == [chunks |-> chunks, fails |-> fails, reads |-> 0]

\* the stream after load_body: nothing is left to read
Drained(stream) == [stream EXCEPT !.chunks = <<>>, !.reads = @ + 1]

\* load_body with the chunks read before the connection dropped returned as the body
load_body_partial(stream) == [ok |-> TRUE, v |-> Flatten(stream.chunks)]

\* load_body: every chunk appended to one buffer, or the stream's error
load_body(stream) ==
    IF stream.fails THEN [ok |-> FALSE, e |-> "hyper::Error"]
    ELSE [ok |-> TRUE, v |-> Flatten(stream.chunks)]

---------------------------------------------------------------------------
(* multipart::server::Multipart over a buffered body. *)

Delimiter == 256
CloseDelimiter == 257

\* the header block of a part: 300 + 10 * (index of the field name) + kind
TextKind == 0
FileKind == 1
BadKind == 2
PartHeader(name, kind) == 300 + 10 * name + kind

IsHeader(tok) == tok >= 300
HeaderKind(tok) == (tok - 300) % 10

\* field.headers.name: the names "a", "b", "f" by index
HeaderName(tok) ==
    CASE (tok - 300) \div 10 = 1 -> <<97>>
      [] (tok - 300) \div 10 = 2 -> <<98>>
      [] OTHER -> <<102>>

\* every part taken for text
is_text_any(tok) == TRUE

\* field.is_text(): the part declares no content type of its own
is_text(tok) == HeaderKind(tok) = TextKind

\* the index of the first framing element at or after i, Len(toks) + 1 if none
RECURSIVE NextFraming(_, _)
NextFraming(toks, i) ==
    IF i > Len(toks) THEN Len(toks) + 1
    ELSE IF toks[i] >= 256 THEN i
    ELSE NextFraming(toks, i + 1)

\* Multipart::read_entry at position i: Ok(None) at the closing delimiter,
\* Ok(Some(field)) for a delimiter followed by a well-formed header block,
\* Err(io::Error) for anything else
read_entry(toks, i) ==
    IF i <= Len(toks) /\ toks[i] = CloseDelimiter THEN Ok(None)
    ELSE IF /\ i + 1 <= Len(toks)
            /\ toks[i] = Delimiter
            /\ IsHeader(toks[i + 1])
            /\ HeaderKind(toks[i + 1]) # BadKind
         THEN Ok(Some([header |-> toks[i + 1],
                       data |-> SubSeq(toks, i + 2, NextFraming(toks, i + 2) - 1),
                       next |-> NextFraming(toks, i + 2)]))
    ELSE Err("io::Error")

---------------------------------------------------------------------------
(* formparser::parse *)

Mime(type, subtype, boundary) == [type |-> type, subtype |-> subtype, boundary |-> boundary]

WWW_FORM_URLENCODED == <<"application", "x-www-form-urlencoded">>
MULTIPART_FORMDATA == <<"multipart", "form-data">>

\* the form kind with only the top-level type compared
form_kind_by_type(mime) ==
    IF mime.type = "application" THEN "urlencoded"
    ELSE IF mime.type = "multipart" THEN "multipart"
    ELSE "other"

\* the match on (mime.type_(), mime.subtype())
form_kind(mime) ==
    IF <<mime.type, mime.subtype>> = WWW_FORM_URLENCODED THEN "urlencoded"
    ELSE IF <<mime.type, mime.subtype>> = MULTIPART_FORMDATA THEN "multipart"
    ELSE "other"

\* the boundary parameter with a default when the content type has none
boundary_param_default(mime) == Some("B")

\* mime.get_param(mime::BOUNDARY)
boundary_param(mime) == mime.boundary

\* the text of a part with the bytes that are no UTF-8 replaced
multipart_text_lossy(data) == Ok(from_utf8_lossy(data))

\* String::from_utf8(data) of a text part
multipart_text(data) == from_utf8(data)

\* the while-let loop over the entries, from position i on
RECURSIVE multipart_loop(_, _, _, _)
multipart_loop(toks, i, form, files) ==
    LET entry == read_entry(toks, i)
    IN  IF ~entry.ok THEN Err("MultipartParseError")
        ELSE IF entry.v = None THEN Ok(<<form, files>>)
        ELSE LET field == entry.v[1]
             IN  IF is_text(field.header)
                 THEN (IF ~multipart_text(field.data).ok
                       THEN Err("MultipartStringDecodingError")
                       ELSE multipart_loop(toks, field.next,
                                MultiDictAdd(form, HeaderName(field.header),
                                             multipart_text(field.data).v),
                                files))
                 ELSE multipart_loop(toks, field.next, form,
                          MultiDictAdd(files, HeaderName(field.header), field.data))

\* the second match of parse, on the buffered body
parse_body(mime, body) ==
    IF form_kind(mime) = "urlencoded"
    THEN Ok(<<form_urlencoded_parse(body), MultiDictNew>>)
    ELSE IF boundary_param(mime) = None THEN Err("NoBoundaryError")
    ELSE multipart_loop(body, 1, MultiDictNew, MultiDictNew)

\* parse: res is what it returns, body the request's stream afterwards
parse(ctype, stream) ==
    IF ctype = None \/ form_kind(ctype[1]) = "other"
    THEN [res |-> Ok(<<MultiDictNew, MultiDictNew>>), body |-> stream]
    ELSE IF ~load_body(stream).ok
    THEN [res |-> Err("StreamReadError"), body |-> Drained(stream)]
    ELSE [res |-> parse_body(ctype[1], load_body(stream).v), body |-> Drained(stream)]

---------------------------------------------------------------------------
(* Pencil: the functions of the application object. *)

\* preprocess_request walking the hooks from the last registered to the first
preprocess_request_reversed(before) ==
    [i \in 1..Len(before) |-> <<"before", before[Len(before) + 1 - i]>>]

\* the lines preprocess_request prints, one per hook
preprocess_request(before) == [i \in 1..Len(before) |-> <<"before", before[i]>>]

\* dispatch_request: captures() gives Ok for a matched rule only; vr is what
\* the view returns when it is called
ViewCalled(views, route) ==
    route.m = "MatchedRule" /\ route.endpoint \in views

dispatch_request(views, route, vr) ==
    IF route.m = "MatchedRule"
    THEN (IF route.endpoint \in views THEN vr
          ELSE Ok(PenString("No such handler")))
    ELSE Ok(PenString("404"))

RECURSIVE PushAll(_, _, _)
PushAll(body, funcs, i) ==
    IF i > Len(funcs) THEN body ELSE PushAll(body \o funcs[i], funcs, i + 1)

process_response(after, r) == [r EXCEPT !.body = PushAll(@, after, 1)]

\* the lines do_teardown_request prints, one per hook
do_teardown_request(teardown) == [i \in 1..Len(teardown) |-> <<"teardown", teardown[i]>>]

\* handle_http_error that never looks a handler up
handle_http_error_default(handlers, e) == Ok(PenResponse(to_response(e.code)))

\* handle_http_error answering every unhandled error as an internal server error
handle_http_error_ise(handlers, e) ==
    IF description(e) \in DOMAIN handlers THEN handlers[description(e)]
    ELSE Ok(PenResponse(to_response(InternalServerError)))

handle_http_error(handlers, e) ==
    IF description(e) \in DOMAIN handlers THEN handlers[description(e)]
    ELSE Ok(PenResponse(to_response(e.code)))

handle_user_error(handlers, e) ==
    IF e.kind = "PenHTTPError" THEN handle_http_error(handlers, e)
    ELSE IF description(e) \in DOMAIN handlers THEN handlers[description(e)]
    ELSE Err(e)

\* handle_error answering an unhandled error with its description as a page
handle_error_echo(handlers, e) ==
    IF description(e) \in DOMAIN handlers
    THEN (IF handlers[description(e)].ok THEN handlers[description(e)].v
          ELSE PenResponse(to_response(InternalServerError)))
    ELSE PenString(description(e))

handle_error(handlers, e) ==
    IF description(e) \in DOMAIN handlers
    THEN (IF handlers[description(e)].ok THEN handlers[description(e)].v
          ELSE PenResponse(to_response(InternalServerError)))
    ELSE PenResponse(to_response(InternalServerError))

\* the second match of full_dispatch_request
full_dispatch_result(after, r) ==
    IF r.ok THEN Ok(process_response(after, make_response(r.v))) ELSE Err(r.e)

\* handle_request with the error of full_dispatch_request passed on to the caller
handle_request_propagates(handlers, d) ==
    IF d.ok THEN [response |-> Some(d.v), escaped |-> None]
    ELSE [response |-> None, escaped |-> Some(d.e)]

\* the match of handle_request
handle_request_result(handlers, d) ==
    IF d.ok THEN [response |-> Some(d.v), escaped |-> None]
    ELSE [response |-> Some(make_response(handle_error(handlers, d.e))), escaped |-> None]

\* the keys under which the error handling of e finds a handler
Fetched(handlers, e) == {description(e)} \cap DOMAIN handlers

---------------------------------------------------------------------------
(* The state after Pencil::new. *)

Init ==
    /\ before_request_funcs = <<>>
    /\ after_request_funcs = <<"after">>
    /\ teardown_request_funcs = <<>>
    /\ error_handlers = <<>>
    /\ view_functions = {}
    /\ url_map = {}
    /\ pc = "setup"
    /\ request = None
    /\ dispatched = None
    /\ rv = None
    /\ fd = None
    /\ response = None
    /\ escaped = None
    /\ events = <<>>
    /\ used = {}
    /\ fs = {}

flight == <<pc, request, dispatched, rv, fd, response, escaped, events, used>>

HooksRegistered ==
    Len(before_request_funcs) + (Len(after_request_funcs) - 1) + Len(teardown_request_funcs)

(* Registration, before the application serves. *)

Route(endpoint) ==
    /\ pc = "setup"
    /\ url_map' = url_map \cup {endpoint}
    /\ view_functions' = view_functions \cup {endpoint}
    /\ UNCHANGED <<fs, before_request_funcs, after_request_funcs, teardown_request_funcs,
                   error_handlers, flight>>

BeforeRequest(f) ==
    /\ pc = "setup"
    /\ HooksRegistered < MaxHooks
    /\ before_request_funcs' = Append(before_request_funcs, f)
    /\ UNCHANGED <<fs, after_request_funcs, teardown_request_funcs, error_handlers,
                   view_functions, url_map, flight>>

AfterRequest(f) ==
    /\ pc = "setup"
    /\ HooksRegistered < MaxHooks
    /\ after_request_funcs' = Append(after_request_funcs, f)
    /\ UNCHANGED <<fs, before_request_funcs, teardown_request_funcs, error_handlers,
                   view_functions, url_map, flight>>

TeardownRequest(f) ==
    /\ pc = "setup"
    /\ HooksRegistered < MaxHooks
    /\ teardown_request_funcs' = Append(teardown_request_funcs, f)
    /\ UNCHANGED <<fs, before_request_funcs, after_request_funcs, error_handlers,
                   view_functions, url_map, flight>>

\* a registration under a key that has a handler takes that handler away
RegisterErrorHandlerToggle(error_desc, f) ==
    /\ pc = "setup"
    /\ error_desc \in DOMAIN error_handlers \/ Cardinality(DOMAIN error_handlers) < MaxHandlers
    /\ error_handlers' =
          [k \in (DOMAIN error_handlers \cup {error_desc})
                    \ (DOMAIN error_handlers \cap {error_desc}) |->
              IF k = error_desc THEN f ELSE error_handlers[k]]
    /\ UNCHANGED <<fs, before_request_funcs, after_request_funcs, teardown_request_funcs,
                   view_functions, url_map, flight>>

\* HashMap::insert: a later registration under the same key replaces the earlier
RegisterErrorHandler(error_desc, f) ==
    /\ pc = "setup"
    /\ error_desc \in DOMAIN error_handlers \/ Cardinality(DOMAIN error_handlers) < MaxHandlers
    /\ error_handlers' =
          [k \in DOMAIN error_handlers \cup {error_desc} |->
              IF k = error_desc THEN f ELSE error_handlers[k]]
    /\ UNCHANGED <<fs, before_request_funcs, after_request_funcs, teardown_request_funcs,
                   view_functions, url_map, flight>>

(* One request. *)

\* the message hyper hands over: what the router resolves it to, the query of
\* its uri, its Content-Type header and its body stream
HttpRequest(route, query, content_type, body) ==
    [route |-> route, query |-> query, content_type |-> content_type, body |-> body]

\* Request::new: no routing outcome, four empty cells.  http is the message
\* as delivered, body its stream as the accessors leave it; parse_log (the
\* calls of formparser::parse with their results) and json_reads (the drains
\* by get_json) count what the accessors did.
RequestOf(http) ==
    [route |-> http.route, url_rule |-> None, routing_redirect |-> None,
     routing_error |-> None,
     http |-> http, body |-> http.body,
     args |-> None, form |-> None, files |-> None, cached_json |-> None,
     parse_log |-> <<>>, json_reads |-> 0]

RequestNew(route) == RequestOf(HttpRequest(route, None, None, BodyStream(<<>>, FALSE)))

\* the server runtime delivers a request
NewRequest(route) ==
    /\ pc \in {"setup", "done", "closed"}
    /\ pc' = "request"
    /\ request' = Some(RequestNew(route))
    /\ dispatched' = None /\ rv' = None /\ fd' = None
    /\ response' = None /\ escaped' = None
    /\ events' = <<>> /\ used' = {}
    /\ UNCHANGED <<fs, app>>

match_request(req) ==
    CASE req.route.m = "MatchedRule" -> [req EXCEPT !.url_rule = Some(req.route.endpoint)]
      [] req.route.m = "MatchedRedirect" ->
            [req EXCEPT !.routing_redirect = Some(<<req.route.location, req.route.code>>)]
      [] req.route.m = "MatchedError" -> [req EXCEPT !.routing_error = Some(req.route.code)]

MatchRequest ==
    /\ pc = "request"
    /\ request' = Some(match_request(request[1]))
    /\ request' # request
    /\ UNCHANGED <<fs, app, pc, dispatched, rv, fd, response, escaped, events, used>>

\* pre-request hooks that are taken off the list as they run
PreprocessRequestDraining ==
    /\ pc = "request"
    /\ events' = events \o preprocess_request(before_request_funcs)
    /\ pc' = "dispatch"
    /\ before_request_funcs' = <<>>
    /\ UNCHANGED <<fs, after_request_funcs, teardown_request_funcs, error_handlers,
                   view_functions, url_map, request, dispatched, rv, fd, response,
                   escaped, used>>

\* handle_request is entered; full_dispatch_request starts with the pre-request hooks
PreprocessRequest ==
    /\ pc = "request"
    /\ events' = events \o preprocess_request(before_request_funcs)
    /\ pc' = "dispatch"
    /\ UNCHANGED <<fs, app, request, dispatched, rv, fd, response, escaped, used>>

DispatchRequest ==
    /\ pc = "dispatch"
    /\ \E vr \in ViewResults :
          /\ dispatched' = Some(dispatch_request(view_functions, request[1].route, vr))
          /\ events' = events \o << <<"resolve", request[1].route.m>> >>
                \o (IF ViewCalled(view_functions, request[1].route)
                    THEN << <<"view", request[1].route.endpoint>> >> ELSE <<>>)
          /\ rv' = IF dispatched'[1].ok THEN dispatched' ELSE None
          /\ pc' = IF dispatched'[1].ok THEN "dispatched" ELSE "user_error"
    /\ UNCHANGED <<fs, app, request, fd, response, escaped, used>>

\* handle_user_error that handles the error its handler returned once more
HandleUserErrorAgain ==
    /\ pc = "user_error"
    /\ IF handle_user_error(error_handlers, dispatched[1].e).ok
       THEN /\ rv' = Some(handle_user_error(error_handlers, dispatched[1].e))
            /\ pc' = "dispatched"
            /\ dispatched' = dispatched
       ELSE /\ dispatched' = Some(handle_user_error(error_handlers, dispatched[1].e))
            /\ pc' = "user_error"
            /\ rv' = rv
    /\ used' = used \cup Fetched(error_handlers, dispatched[1].e)
    /\ UNCHANGED <<fs, app, request, fd, response, escaped, events>>

HandleUserError ==
    /\ pc = "user_error"
    /\ rv' = Some(handle_user_error(error_handlers, dispatched[1].e))
    /\ used' = used \cup Fetched(error_handlers, dispatched[1].e)
    /\ pc' = "dispatched"
    /\ UNCHANGED <<fs, app, request, dispatched, fd, response, escaped, events>>

FullDispatchReturn ==
    /\ pc = "dispatched"
    /\ fd' = Some(full_dispatch_result(after_request_funcs, rv[1]))
    /\ pc' = "returning"
    /\ UNCHANGED <<fs, app, request, dispatched, rv, response, escaped, events, used>>

HandleRequestReturn ==
    /\ pc = "returning"
    /\ response' = handle_request_result(error_handlers, fd[1]).response
    /\ escaped' = handle_request_result(error_handlers, fd[1]).escaped
    /\ events' = events \o (IF fd[1].ok THEN <<>>
                             ELSE << <<"log_error", description(fd[1].e)>> >>)
    /\ used' = used \cup (IF fd[1].ok THEN {} ELSE Fetched(error_handlers, fd[1].e))
    /\ pc' = "done"
    /\ UNCHANGED <<fs, app, request, dispatched, rv, fd>>

\* do_teardown_request is public: whoever called handle_request may call it after
DoTeardownRequest ==
    /\ pc = "done"
    /\ events' = events \o do_teardown_request(teardown_request_funcs)
    /\ pc' = "closed"
    /\ UNCHANGED <<fs, app, request, dispatched, rv, fd, response, escaped, used>>

Next ==
    \/ \E ep \in Endpoints : Route(ep)
    \/ \E f \in HookNames : BeforeRequest(f)
    \/ \E f \in HookNames : AfterRequest(f)
    \/ \E f \in HookNames : TeardownRequest(f)
    \/ \E k \in HandlerKeys, f \in HandlerResults : RegisterErrorHandler(k, f)
    \/ \E route \in Routes(url_map) : NewRequest(route)
    \/ MatchRequest
    \/ PreprocessRequest
    \/ DispatchRequest
    \/ HandleUserError
    \/ FullDispatchReturn
    \/ HandleRequestReturn
    \/ DoTeardownRequest

Spec == Init /\ [][Next]_vars

---------------------------------------------------------------------------
(* Request: the lazily filled cells args, form, files and cached_json. *)

\* LazyCell
filled(cell) == cell # None

\* serde_json::from_slice(..).ok() for the documents the bodies here can be:
\* a number without sign, fraction or exponent, null, {} and []
IsDigits(bs) == bs # <<>> /\ \A i \in 1..Len(bs) : bs[i] >= 48 /\ bs[i] <= 57

json_from_slice(bs) ==
    IF IsDigits(bs) /\ (Len(bs) = 1 \/ bs[1] # 48) THEN Some([json |-> "Number", text |-> bs])
    ELSE IF bs = <<110, 117, 108, 108>> THEN Some([json |-> "Null", text |-> <<>>])
    ELSE IF bs = <<123, 125>> THEN Some([json |-> "Object", text |-> <<>>])
    ELSE IF bs = <<91, 93>> THEN Some([json |-> "Array", text |-> <<>>])
    ELSE None

\* the MultiDict of the pairs of the query string
RECURSIVE AddAll(_, _, _)
AddAll(d, pairs, i) ==
    IF i > Len(pairs) THEN d
    ELSE AddAll(MultiDictAdd(d, pairs[i][1], pairs[i][2]), pairs, i + 1)

\* Request::args
args(req) ==
    IF ~filled(req.args)
    THEN [req EXCEPT !.args =
            Some(IF req.http.query # None
                 THEN AddAll(MultiDictNew, form_urlencoded_parse(req.http.query[1]), 1)
                 ELSE MultiDictNew)]
    ELSE req

Panic(msg) == [kind |-> "panic", desc |-> msg]

\* get_json that takes a body that is no JSON document for a failure of the caller
get_json_strict(req) ==
    IF ~filled(req.cached_json)
    THEN (IF ~load_body(req.body).ok \/ json_from_slice(load_body(req.body).v) = None
          THEN [req |-> [req EXCEPT !.body = Drained(@), !.json_reads = @ + 1],
                panic |-> Some(Panic("TODO"))]
          ELSE [req |-> [req EXCEPT !.body = Drained(@), !.json_reads = @ + 1,
                                    !.cached_json = Some(json_from_slice(load_body(req.body).v))],
                panic |-> None])
    ELSE [req |-> req, panic |-> None]

\* get_json that reads the body at every call
get_json_uncached(req) ==
    IF ~load_body(req.body).ok
    THEN [req |-> [req EXCEPT !.body = Drained(@), !.json_reads = @ + 1],
          panic |-> Some(Panic("TODO"))]
    ELSE [req |-> [req EXCEPT !.body = Drained(@), !.json_reads = @ + 1,
                              !.cached_json = Some(json_from_slice(load_body(req.body).v))],
          panic |-> None]

\* Request::get_json: req is the request afterwards, panic what expect("TODO")
\* raised when the body could not be read
get_json(req) ==
    IF ~filled(req.cached_json)
    THEN (IF ~load_body(req.body).ok
          THEN [req |-> [req EXCEPT !.body = Drained(@), !.json_reads = @ + 1],
                panic |-> Some(Panic("TODO"))]
          ELSE [req |-> [req EXCEPT !.body = Drained(@), !.json_reads = @ + 1,
                                    !.cached_json = Some(json_from_slice(load_body(req.body).v))],
                panic |-> None])
    ELSE [req |-> req, panic |-> None]

\* the request with one more call of formparser::parse in its log
Parsed(req) ==
    [req EXCEPT !.body = parse(req.http.content_type, req.body).body,
                !.parse_log = Append(@, [content_type |-> req.http.content_type,
                                         body |-> req.body,
                                         res |-> parse(req.http.content_type, req.body).res])]

\* load_form_data that parses at every call
load_form_data_always(req) ==
    IF ~parse(req.http.content_type, req.body).res.ok
    THEN [req |-> Parsed(req), res |-> Err(parse(req.http.content_type, req.body).res.e)]
    ELSE [req |-> [Parsed(req) EXCEPT
                      !.form = Some(parse(req.http.content_type, req.body).res.v[1]),
                      !.files = Some(parse(req.http.content_type, req.body).res.v[2])],
          res |-> Ok(<<>>)]

\* load_form_data that fills the form cell only
load_form_data_form_only(req) ==
    IF filled(req.form) THEN [req |-> req, res |-> Ok(<<>>)]
    ELSE IF ~parse(req.http.content_type, req.body).res.ok
    THEN [req |-> Parsed(req), res |-> Err(parse(req.http.content_type, req.body).res.e)]
    ELSE [req |-> [Parsed(req) EXCEPT
                      !.form = Some(parse(req.http.content_type, req.body).res.v[1])],
          res |-> Ok(<<>>)]

\* load_form_data that leaves an empty form behind when the parser fails
load_form_data_partial(req) ==
    IF filled(req.form) THEN [req |-> req, res |-> Ok(<<>>)]
    ELSE IF ~parse(req.http.content_type, req.body).res.ok
    THEN [req |-> [Parsed(req) EXCEPT !.form = Some(MultiDictNew)],
          res |-> Err(parse(req.http.content_type, req.body).res.e)]
    ELSE [req |-> [Parsed(req) EXCEPT
                      !.form = Some(parse(req.http.content_type, req.body).res.v[1]),
                      !.files = Some(parse(req.http.content_type, req.body).res.v[2])],
          res |-> Ok(<<>>)]

\* Request::load_form_data: req is the request afterwards, res what it returns
load_form_data(req) ==
    IF filled(req.form) THEN [req |-> req, res |-> Ok(<<>>)]
    ELSE IF ~parse(req.http.content_type, req.body).res.ok
    THEN [req |-> Parsed(req), res |-> Err(parse(req.http.content_type, req.body).res.e)]
    ELSE [req |-> [Parsed(req) EXCEPT
                      !.form = Some(parse(req.http.content_type, req.body).res.v[1]),
                      !.files = Some(parse(req.http.content_type, req.body).res.v[2])],
          res |-> Ok(<<>>)]

\* Request::form and Request::files: load_form_data().await.expect("TODO")
form(req) ==
    [req |-> load_form_data(req).req,
     panic |-> IF load_form_data(req).res.ok THEN None ELSE Some(Panic("TODO"))]

files(req) ==
    [req |-> load_form_data(req).req,
     panic |-> IF load_form_data(req).res.ok THEN None ELSE Some(Panic("TODO"))]

---------------------------------------------------------------------------
(* A view function that reads its request. *)

ContentTypes ==
    {None,
     Some(Mime("text", "plain", None)),
     Some(Mime("application", "json", None)),
     Some(Mime("application", "x-www-form-urlencoded", None)),
     Some(Mime("multipart", "form-data", Some("B"))),
     Some(Mime("multipart", "form-data", None))}

\* bodies of plain bytes, as the chunks they arrive in: nothing, 1, {}, a=1&b=2
ByteBodies ==
    {<<>>,
     << <<49>> >>,
     << <<123, 125>> >>,
     << <<97, 61, 49, 38>>, <<98, 61, 50>> >>,
     \* a=1&a=2
     << <<97, 61, 49, 38, 97, 61, 50>> >>,
     \* k+v=x%26y%3Dz&%C3%A9=%2B%25
     << <<107, 43, 118, 61, 120, 37, 50, 54, 121, 37, 51, 68, 122, 38, 37, 67, 51, 37, 65, 57, 61, 37, 50, 66, 37, 50, 53>> >>,
     \* b=&a=1&b=2
     << <<98, 61, 38, 97, 61, 49, 38, 98, 61, 50>> >>}

\* multipart bodies with the boundary B; the data of every part is followed
\* by a delimiter
MultipartBodies ==
    {\* a text part a and a file part f
     << <<Delimiter, PartHeader(1, TextKind), 120,
          Delimiter, PartHeader(3, FileKind), 255, 0>>, <<CloseDelimiter>> >>,
     \* text parts a, b (empty) and a again around a file part f
     << <<Delimiter, PartHeader(1, TextKind), 120,
          Delimiter, PartHeader(3, FileKind), 255, 0,
          Delimiter, PartHeader(2, TextKind)>>,
        <<Delimiter, PartHeader(1, TextKind), 121, 122, CloseDelimiter>> >>,
     \* a text part that is no UTF-8
     << <<Delimiter, PartHeader(1, TextKind), 255, CloseDelimiter>> >>,
     \* a part with a malformed header block, then a text part that is no UTF-8
     << <<Delimiter, PartHeader(2, BadKind),
          Delimiter, PartHeader(1, TextKind), 255, CloseDelimiter>> >>,
     \* a text part, a text part that is no UTF-8, a file part
     << <<Delimiter, PartHeader(1, TextKind), 120,
          Delimiter, PartHeader(2, TextKind), 195, 40>>,
        <<Delimiter, PartHeader(3, FileKind), 1, CloseDelimiter>> >>,
     \* a text part that is no UTF-8, then a part with a malformed header block
     << <<Delimiter, PartHeader(1, TextKind), 255,
          Delimiter, PartHeader(2, BadKind), CloseDelimiter>> >>,
     \* a body that ends after a delimiter, before the closing delimiter
     << <<Delimiter, PartHeader(1, TextKind), 120, Delimiter>> >>}

\* no query, x=1&x=2, k+v=x%26y%3Dz&%C3%A9=%2B%25
Queries ==
    {None,
     Some(<<120, 61, 49, 38, 120, 61, 50>>),
     Some(<<107, 43, 118, 61, 120, 37, 50, 54, 121, 37, 51, 68, 122, 38, 37, 67, 51, 37, 65, 57, 61, 37, 50, 66, 37, 50, 53>>)}

\* a body with multipart framing is not sent as a urlencoded form
HttpRequests ==
    {HttpRequest(MatchedRule("index"), q, ct, BodyStream(chunks, fails)) :
        q \in Queries, ct \in ContentTypes,
        chunks \in ByteBodies \cup MultipartBodies, fails \in BOOLEAN}
    \ {HttpRequest(MatchedRule("index"), q, Some(Mime("application", "x-www-form-urlencoded", None)),
                   BodyStream(chunks, fails)) :
        q \in Queries, chunks \in MultipartBodies, fails \in BOOLEAN}

\* the application with the view index registered; a request was delivered
\* and matched, no pre-request hook is registered, the view is running
ReqInit ==
    /\ before_request_funcs = <<>>
    /\ after_request_funcs = <<"after">>
    /\ teardown_request_funcs = <<>>
    /\ error_handlers = <<>>
    /\ view_functions = {"index"}
    /\ url_map = {"index"}
    /\ pc = "view"
    /\ \E http \in HttpRequests : request = Some(match_request(RequestOf(http)))
    /\ dispatched = None
    /\ rv = None
    /\ fd = None
    /\ response = None
    /\ escaped = None
    /\ events = << <<"resolve", "MatchedRule">>, <<"view", "index">> >>
    /\ used = {}
    /\ fs = {}

\* the view calls request.args()
CallArgs ==
    /\ pc = "view"
    /\ request' = Some(args(request[1]))
    /\ UNCHANGED <<fs, app, pc, dispatched, rv, fd, response, escaped, events, used>>

\* an accessor that may panic: the panic unwinds the view and, with nothing
\* in dispatch_request, full_dispatch_request or handle_request catching it,
\* handle_request
Accessed(r) ==
    /\ request' = Some(r.req)
    /\ pc' = IF r.panic = None THEN "view" ELSE "panicked"
    /\ escaped' = r.panic
    /\ UNCHANGED <<fs, app, dispatched, rv, fd, response, events, used>>

\* the view awaits request.get_json()
CallGetJson ==
    /\ pc = "view"
    /\ Accessed(get_json(request[1]))

\* the view awaits request.form()
CallForm ==
    /\ pc = "view"
    /\ Accessed(form(request[1]))

\* the view awaits request.files()
CallFiles ==
    /\ pc = "view"
    /\ Accessed(files(request[1]))

\* the view returns what dispatch_request hands on
ViewReturn ==
    /\ pc = "view"
    /\ \E vr \in ViewResults :
          /\ dispatched' = Some(dispatch_request(view_functions, request[1].route, vr))
          /\ rv' = IF dispatched'[1].ok THEN dispatched' ELSE None
          /\ pc' = IF dispatched'[1].ok THEN "dispatched" ELSE "user_error"
    /\ UNCHANGED <<fs, app, request, fd, response, escaped, events, used>>

ReqNext ==
    \/ CallArgs
    \/ CallGetJson
    \/ CallForm
    \/ CallFiles
    \/ ViewReturn
    \/ HandleUserError
    \/ FullDispatchReturn
    \/ HandleRequestReturn
    \/ DoTeardownRequest

ReqSpec == ReqInit /\ [][ReqNext]_vars

---------------------------------------------------------------------------
(* The Headers of a Response under construction. *)

HeaderKeys == {"Content-Type", "content-type", "Location"}
HeaderValues == {"a", "b"}

\* a Response whose Headers were created empty
HeadersInit ==
    /\ before_request_funcs = <<>>
    /\ after_request_funcs = <<"after">>
    /\ teardown_request_funcs = <<>>
    /\ error_handlers = <<>>
    /\ view_functions = {}
    /\ url_map = {}
    /\ pc = "headers"
    /\ request = None
    /\ dispatched = None
    /\ rv = None
    /\ fd = None
    /\ response = Some([status_code |-> 200, headers |-> HeadersNew, body |-> ""])
    /\ escaped = None
    /\ events = <<>>
    /\ used = {}
    /\ fs = {}

\* response.headers.add(key, value)
HeadersAddCall(key, value) ==
    /\ pc = "headers"
    /\ Len(response[1].headers) < MaxHeaders
    /\ response' = Some([response[1] EXCEPT !.headers = HeadersAdd(@, key, value)])
    /\ UNCHANGED <<fs, app, pc, request, dispatched, rv, fd, escaped, events, used>>

\* response.headers.set(key, value)
HeadersSetCall(key, value) ==
    /\ pc = "headers"
    /\ Len(response[1].headers) < MaxHeaders
          \/ HeadersGet(response[1].headers, key) # None
    /\ response' = Some([response[1] EXCEPT !.headers = HeadersSet(@, key, value)])
    /\ UNCHANGED <<fs, app, pc, request, dispatched, rv, fd, escaped, events, used>>

\* response.headers.remove(key): rv is what it returned
HeadersRemoveCall(key) ==
    /\ pc = "headers"
    /\ response' = Some([response[1] EXCEPT !.headers = HeadersRemove(@, key).list])
    /\ rv' = HeadersRemove(response[1].headers, key).rv
    /\ UNCHANGED <<fs, app, pc, request, dispatched, fd, escaped, events, used>>

HeadersNext ==
    \/ \E k \in HeaderKeys, v \in HeaderValues : HeadersAddCall(k, v)
    \/ \E k \in HeaderKeys, v \in HeaderValues : HeadersSetCall(k, v)
    \/ \E k \in HeaderKeys : HeadersRemoveCall(k)

HeadersSpec == HeadersInit /\ [][HeadersNext]_vars

---------------------------------------------------------------------------
(* The setters of a Response. *)

\* text/plain, text/plain; charset=ISO-8859-1, application/xml, application/atom+xml, application/json, text/html; Charset=ISO-8859-1
Mimetypes ==
    {<<"t","e","x","t","/","p","l","a","i","n">>,
     <<"t","e","x","t","/","p","l","a","i","n",";"," ","c","h","a","r","s","e","t","=","I","S","O","-","8","8","5","9","-","1">>,
     <<"a","p","p","l","i","c","a","t","i","o","n","/","x","m","l">>,
     <<"a","p","p","l","i","c","a","t","i","o","n","/","a","t","o","m","+","x","m","l">>,
     <<"a","p","p","l","i","c","a","t","i","o","n","/","j","s","o","n">>,
     <<"t","e","x","t","/","h","t","m","l",";"," ","C","h","a","r","s","e","t","=","I","S","O","-","8","8","5","9","-","1">>}

Cookies == {"a=1", "b=2"}
Bodies == {"", "hi"}

\* a Response converted from a string
ResponseInit ==
    /\ before_request_funcs = <<>>
    /\ after_request_funcs = <<"after">>
    /\ teardown_request_funcs = <<>>
    /\ error_handlers = <<>>
    /\ view_functions = {}
    /\ url_map = {}
    /\ pc = "response"
    /\ request = None
    /\ dispatched = None
    /\ rv = None
    /\ fd = None
    /\ \E s \in Bodies : response = Some(ResponseFrom(s))
    /\ escaped = None
    /\ events = <<>>
    /\ used = {}
    /\ fs = {}

SetContentType(mimetype) ==
    /\ pc = "response"
    /\ response' = Some(set_content_type(response[1], mimetype))
    /\ UNCHANGED <<fs, app, pc, request, dispatched, rv, fd, escaped, events, used>>

SetContentLength(value) ==
    /\ pc = "response"
    /\ response' = Some(set_content_length(response[1], value))
    /\ UNCHANGED <<fs, app, pc, request, dispatched, rv, fd, escaped, events, used>>

SetCookie(cookie) ==
    /\ pc = "response"
    /\ response' = Some(set_cookie(response[1], cookie))
    /\ UNCHANGED <<fs, app, pc, request, dispatched, rv, fd, escaped, events, used>>

ResponseNext ==
    \/ \E m \in Mimetypes : SetContentType(m)
    \/ \E n \in 0..MaxContentLength : SetContentLength(n)
    \/ \E c \in Cookies : SetCookie(c)

ResponseSpec == ResponseInit /\ [][ResponseNext]_vars

---------------------------------------------------------------------------
(* helpers::send_file_range.  A range is a pair of bounds, a bound is
   <<"Unbounded">>, <<"Included", n>> or <<"Excluded", n>>; the Range header
   is the sequence of its ranges.  Paths have one component, so that the
   file name of a path is the path. *)

\* Response::new(Body) of a body of bytes
Response_new(body) ==
    [status_code |-> 200,
     headers |-> HeadersSet(<<>>, "Content-Type", "text/html; charset=UTF-8"),
     body |-> body]

\* ContentRange::bytes(start..end, content_len) names the positions start to
\* end - 1 and writes content_len after the slash.
\* overflow_checks: whether the build panics on u64 overflow or wraps around.
\* end - start wrapped around is more than any file holds, and 0 - 1 wrapped
\* around is u64::MAX.
send_file_range(disk, filepath, mimetype, as_attachment, range, overflow_checks) ==
    IF ~\E f \in disk : f.path = filepath THEN abort(404)
    ELSE
    LET bytes == (CHOOSE f \in disk : f.path = filepath).bytes
        len == Len(bytes)
        finish(resp) ==
            LET typed == [resp EXCEPT !.headers = HeadersSet(@, "Content-Type", mimetype)]
            IN  IF as_attachment
                THEN Ok([typed EXCEPT !.headers =
                            HeadersSet(@, "Content-Disposition",
                                       "attachment; filename=" \o filepath)])
                ELSE Ok(typed)
        whole == finish(set_content_length(Response_new(bytes), len))
    IN  IF range = None THEN whole
        ELSE IF Len(range[1]) # 1 THEN whole
        ELSE
        LET lo == range[1][1][1]
            hi == range[1][1][2]
            start == CASE lo[1] = "Unbounded" -> 0
                       [] lo[1] = "Included" -> lo[2]
                       [] lo[1] = "Excluded" -> lo[2] + 1
            end == CASE hi[1] = "Unbounded" -> len
                     [] hi[1] = "Included" -> hi[2] + 1
                     [] hi[1] = "Excluded" -> hi[2]
            last == IF end < start \/ len < end THEN len ELSE end
            buf == IF start < last THEN SubSeq(bytes, start + 1, last) ELSE <<>>
            content_len == Len(buf)
            content_range ==
                "bytes " \o to_string(start) \o "-"
                    \o (IF end = 0 THEN "18446744073709551615" ELSE to_string(end - 1))
                    \o "/" \o to_string(content_len)
            resp == [set_content_length(Response_new(buf), content_len)
                        EXCEPT !.status_code = 206]
        IN  IF overflow_checks /\ (end < start \/ end = 0)
            THEN Panic("attempt to subtract with overflow")
            ELSE finish([resp EXCEPT !.headers =
                            HeadersSet(@, "Content-Range", content_range)])

FileBytes(n) == [i \in 1..n |-> 64 + i]

\* no Range header, one range start-end, start- or -end, or two ranges
Ranges ==
    {None}
      \cup {Some(<<<<<<"Included", s>>, <<"Included", e>>>>>>) :
                s \in 0..(MaxFileLen + 1), e \in 0..(MaxFileLen + 1)}
      \cup {Some(<<<<<<"Included", s>>, <<"Unbounded">>>>>>) : s \in 0..(MaxFileLen + 1)}
      \cup {Some(<<<<<<"Unbounded">>, <<"Included", e>>>>>>) : e \in 0..(MaxFileLen + 1)}
      \cup {Some(<<<<<<"Included", 0>>, <<"Included", 0>>>>,
                   <<<<"Included", 2>>, <<"Included", 3>>>>>>)}

\* the directory holds no file or the file a.bin
FileInit ==
    /\ before_request_funcs = <<>>
    /\ after_request_funcs = <<"after">>
    /\ teardown_request_funcs = <<>>
    /\ error_handlers = <<>>
    /\ view_functions = {}
    /\ url_map = {}
    /\ pc = "file"
    /\ request = None
    /\ dispatched = None
    /\ rv = None
    /\ fd = None
    /\ response = None
    /\ escaped = None
    /\ events = <<>>
    /\ used = {}
    /\ \/ fs = {}
       \/ \E n \in 0..MaxFileLen : fs = {[path |-> "a.bin", bytes |-> FileBytes(n)]}

\* a view calls send_file_range: events holds the call, rv what it returned,
\* escaped its panic
SendFileRange(filepath, mimetype, as_attachment, range, overflow_checks) ==
    /\ pc = "file"
    /\ LET out == send_file_range(fs, filepath, mimetype, as_attachment, range,
                                  overflow_checks)
       IN  IF "ok" \in DOMAIN out
           THEN rv' = Some(out) /\ escaped' = None
           ELSE rv' = None /\ escaped' = Some(out)
    /\ events' = <<[filepath |-> filepath, mimetype |-> mimetype,
                    as_attachment |-> as_attachment, range |-> range]>>
    /\ pc' = "sent"
    /\ UNCHANGED <<fs, app, request, dispatched, fd, response, used>>

FileNext ==
    \E filepath \in {"a.bin", "b.bin"}, mimetype \in {"image/png", "text/plain"},
       as_attachment \in BOOLEAN, range \in Ranges, overflow_checks \in BOOLEAN :
        SendFileRange(filepath, mimetype, as_attachment, range, overflow_checks)

FileSpec == FileInit /\ [][FileNext]_vars

---------------------------------------------------------------------------
(* helpers::safe_join, send_file and send_from_directory.  A path is the
   sequence of its characters; the file system resolves it from the working
   directory /srv, component by component, to the location of a file: the
   sequence of the names from the root. *)

safe_join(directory, filename) ==
    IF (filename # <<>> /\ filename[1] = "/")
          \/ filename = <<".", ".">>
          \/ starts_with(filename, <<".", ".", "/">>)
    THEN None
    ELSE Some(directory \o <<"/">> \o filename)

\* the components of a path from character i on, cur being the one begun:
\* empty components and '.' do not count
RECURSIVE Components(_, _, _)
Components(path, i, cur) ==
    LET done == IF cur \in {"", "."} THEN <<>> ELSE <<cur>>
    IN  IF i > Len(path) THEN done
        ELSE IF path[i] = "/" THEN done \o Components(path, i + 1, "")
        ELSE Components(path, i + 1, cur \o path[i])

\* the location the file system reaches from loc by the components i, i+1, ..:
\* '..' leaves a directory for its parent and fails on anything else; a
\* directory is what some file of the disk lies in
RECURSIVE Lookup(_, _, _, _)
Lookup(disk, comps, i, loc) ==
    IF i > Len(comps) THEN Some(loc)
    ELSE IF comps[i] = ".."
         THEN IF \E f \in disk : Len(f.path) > Len(loc) /\ SubSeq(f.path, 1, Len(loc)) = loc
              THEN Lookup(disk, comps, i + 1,
                          IF loc = <<>> THEN loc ELSE SubSeq(loc, 1, Len(loc) - 1))
              ELSE None
    ELSE Lookup(disk, comps, i + 1, Append(loc, comps[i]))

send_file(disk, filepath, mimetype, as_attachment) ==
    LET comps == Components(filepath, 1, "")
        at == Lookup(disk, comps, 1,
                     IF filepath # <<>> /\ filepath[1] = "/" THEN <<>> ELSE <<"srv">>)
    IN  IF at = None \/ ~\E f \in disk : f.path = at[1] THEN abort(404)
        ELSE
        LET bytes == (CHOOSE f \in disk : f.path = at[1]).bytes
            response0 == set_content_length(Response_new(bytes), Len(bytes))
            typed == [response0 EXCEPT !.headers = HeadersSet(@, "Content-Type", mimetype)]
        IN  IF ~as_attachment THEN Ok(typed)
            ELSE IF comps = <<>> \/ comps[Len(comps)] = ".."
            THEN Err(PenUserError("filename unavailable, required for sending as attachment."))
            ELSE Ok([typed EXCEPT !.headers =
                        HeadersSet(@, "Content-Disposition",
                                   "attachment; filename=" \o comps[Len(comps)])])

\* the mimetype is guessed from the extension of the path
send_from_directory(disk, directory, filename, as_attachment) ==
    IF safe_join(directory, filename) = None THEN abort(404)
    ELSE send_file(disk, safe_join(directory, filename)[1],
                   IF ends_with(filename, <<".", "t", "x", "t">>)
                   THEN "text/plain" ELSE "application/octet-stream",
                   as_attachment)

\* a.txt, sub/a.txt, missing.txt, .., ../s.txt, /etc/s.txt, sub/../a.txt, sub/../../s.txt, ./../s.txt, nosuch/../../s.txt
Filenames ==
    {<<"a",".","t","x","t">>,
     <<"s","u","b","/","a",".","t","x","t">>,
     <<"m","i","s","s","i","n","g",".","t","x","t">>,
     <<".",".">>,
     <<".",".","/","s",".","t","x","t">>,
     <<"/","e","t","c","/","s",".","t","x","t">>,
     <<"s","u","b","/",".",".","/","a",".","t","x","t">>,
     <<"s","u","b","/",".",".","/",".",".","/","s",".","t","x","t">>,
     <<".","/",".",".","/","s",".","t","x","t">>,
     <<"n","o","s","u","c","h","/",".",".","/",".",".","/","s",".","t","x","t">>}

\* any of four files is on the disk: two inside /srv/static, two outside
DirInit ==
    /\ before_request_funcs = <<>>
    /\ after_request_funcs = <<"after">>
    /\ teardown_request_funcs = <<>>
    /\ error_handlers = <<>>
    /\ view_functions = {}
    /\ url_map = {}
    /\ pc = "dir"
    /\ request = None
    /\ dispatched = None
    /\ rv = None
    /\ fd = None
    /\ response = None
    /\ escaped = None
    /\ events = <<>>
    /\ used = {}
    /\ fs \in SUBSET {[path |-> <<"srv", "static", "a.txt">>, bytes |-> <<65>>],
                     [path |-> <<"srv", "static", "sub", "a.txt">>, bytes |-> <<66, 66>>],
                     [path |-> <<"srv", "s.txt">>, bytes |-> <<83>>],
                     [path |-> <<"etc", "s.txt">>, bytes |-> <<69>>]}

\* a view calls send_from_directory("static", filename, as_attachment):
\* events holds the call, rv what it returned
SendFromDirectory(filename, as_attachment) ==
    /\ pc = "dir"
    /\ rv' = Some(send_from_directory(fs, <<"s","t","a","t","i","c">>, filename,
                                      as_attachment))
    /\ events' = <<[filename |-> filename, as_attachment |-> as_attachment]>>
    /\ pc' = "sent"
    /\ UNCHANGED <<fs, app, request, dispatched, fd, response, escaped, used>>

DirNext ==
    \E filename \in Filenames, as_attachment \in BOOLEAN :
        SendFromDirectory(filename, as_attachment)

DirSpec == DirInit /\ [][DirNext]_vars

---------------------------------------------------------------------------
(* Properties of handle_request. *)

Returned == pc \in {"done", "closed"}
InFlight == pc \in {"request", "dispatch", "user_error", "dispatched", "returning"}

IsResponse(r) ==
    /\ DOMAIN r = {"status_code", "headers", "body"}
    /\ r.status_code \in Nat

HandleRequestStep ==
    \/ PreprocessRequest
    \/ DispatchRequest
    \/ HandleUserError
    \/ FullDispatchReturn
    \/ HandleRequestReturn

EventsOf(kind) == SelectSeq(events, LAMBDA ev : ev[1] = kind)

\* C1: handle_request is total.  Whatever the routing outcome, the view's
\* result and the registered error handlers, a request in flight can always
\* take its next step, and when handle_request has returned it has returned
\* a Response and no error has left it.
C1_HandleRequestTotal ==
    /\ InFlight => ENABLED HandleRequestStep
    /\ Returned => /\ escaped = None
                   /\ response # None
                   /\ IsResponse(response[1])

\* a user error without a handler has gone through handle_request
C1_Witness ==
    /\ pc = "done"
    /\ ~dispatched[1].ok
    /\ dispatched[1].e.kind = "PenUserError"
    /\ description(dispatched[1].e) \notin DOMAIN error_handlers

\* C2: when handle_request returns it has run every registered teardown
\* hook, in registration order.
C2_TeardownBeforeReturn ==
    pc = "done" =>
        EventsOf("teardown")
          = [i \in 1..Len(teardown_request_funcs) |-> <<"teardown", teardown_request_funcs[i]>>]

\* the value the returned Response is made from
FinalValue ==
    IF rv[1].ok THEN rv[1].v ELSE handle_error(error_handlers, rv[1].e)

\* C3: the Response handle_request returns is the materialized Response
\* with every post-request hook applied to it, in registration order, also
\* when it comes from the error handling.
C3_PostHooksOnEveryResponse ==
    pc = "done" =>
        response = Some([make_response(FinalValue) EXCEPT
                            !.body = PushAll(@, after_request_funcs, 1)])

\* C4: a 404 routing error without a handler for "Not Found" gives a
\* Response with status 404 and the reason phrase "Not Found".
C4_RoutingError404 ==
    (/\ pc = "done"
     /\ request[1].route = MatchedError(404)
     /\ "Not Found" \notin DOMAIN error_handlers)
    => /\ response[1].status_code = 404
       /\ status_name(response[1]) = "Not Found"

\* the view was called and returned an error
ViewFailed ==
    /\ Returned
    /\ ViewCalled(view_functions, request[1].route)
    /\ ~dispatched[1].ok

ViewError == dispatched[1].e

\* C5: when the view returns an HTTP error or a user error and a handler is
\* registered under the error's description, the Response returned is built
\* from the handler's result: a success value is made into the Response and
\* gets the post-request hooks; an error value goes to handle_error in
\* place of the view's error.
C5_HandlerResultReplacesError ==
    (ViewFailed /\ description(ViewError) \in DOMAIN error_handlers)
    => LET h == error_handlers[description(ViewError)]
       IN  /\ h.ok => response = Some([make_response(h.v) EXCEPT
                                          !.body = PushAll(@, after_request_funcs, 1)])
           /\ ~h.ok => response = Some(make_response(handle_error(error_handlers, h.e)))

\* a view's 404 met a handler that is a success value
C5_Witness ==
    /\ ViewFailed
    /\ ViewError = PenHTTPError(404)
    /\ "Not Found" \in DOMAIN error_handlers
    /\ error_handlers["Not Found"] = Ok(PenString("handled"))
    /\ response[1].body = "handledafter"

\* C6: when the view returns an HTTP error with status code c and no
\* handler is registered under its description, the Response returned is
\* the error's default mapping (with the post-request hooks applied), and
\* its status code is c.
C6_UnhandledHttpErrorKeepsCode ==
    (/\ ViewFailed
     /\ ViewError.kind = "PenHTTPError"
     /\ description(ViewError) \notin DOMAIN error_handlers)
    => /\ response[1].status_code = ViewError.code
       /\ response[1].headers = to_response(ViewError.code).headers
       /\ response[1].body = PushAll(to_response(ViewError.code).body, after_request_funcs, 1)

\* a view's 404 without a handler came back as a 404
C6_Witness ==
    /\ ViewFailed
    /\ ViewError = PenHTTPError(404)
    /\ "Not Found" \notin DOMAIN error_handlers
    /\ response[1].status_code = 404

\* C7: when the view returns a user error whose description has no handler,
\* handle_request returns the Internal Server Error Response, status 500.
C7_UnhandledUserErrorIs500 ==
    (/\ ViewFailed
     /\ ViewError.kind = "PenUserError"
     /\ description(ViewError) \notin DOMAIN error_handlers)
    => /\ escaped = None
       /\ response # None
       /\ response[1].status_code = 500
       /\ status_name(response[1]) = "Internal Server Error"

\* the user error "boom" without a handler, while other handlers are registered
C7_Witness ==
    /\ ViewFailed
    /\ ViewError = PenUserError("boom")
    /\ "boom" \notin DOMAIN error_handlers
    /\ DOMAIN error_handlers # {}
    /\ response[1].status_code = 500

\* C8: when the handler registered for the error's description is itself an
\* error value, handle_request still returns a Response, and no handler
\* other than that one is fetched for the request.
C8_ErrorHandlerIsolated ==
    (/\ ViewFailed
     /\ description(ViewError) \in DOMAIN error_handlers
     /\ ~error_handlers[description(ViewError)].ok)
    => /\ escaped = None
       /\ response # None
       /\ used \subseteq {description(ViewError)}

C10_RedirectResponse ==
    (Returned /\ request[1].route.m = "MatchedRedirect")
    => /\ response[1].status_code = request[1].route.code
       /\ HeadersGet(response[1].headers, "Location") = Some(request[1].route.location)
       /\ EventsOf("view") = <<>>


---------------------------------------------------------------------------
(* The claims about the request's cells and the body parser, under ReqSpec. *)

Req == request[1]

\* the calls of formparser::parse on this request so far
ParseCalls == {Req.parse_log[i] : i \in 1..Len(Req.parse_log)}

\* the bytes the client sent, when its stream arrives completely
SentBytes == Flatten(Req.http.body.chunks)

IsFormType(ct) ==
    ct # None /\ <<ct[1].type, ct[1].subtype>> \in {WWW_FORM_URLENCODED, MULTIPART_FORMDATA}

IsMultipart(ct) == ct # None /\ <<ct[1].type, ct[1].subtype>> = MULTIPART_FORMDATA

CallsFormOrFiles == CallForm \/ CallFiles

\* C11: over any sequence of form() and files() calls on one request the
\* parser is invoked at most once and the body is drained by it at most once;
\* a call of either accessor on a request whose form cell is filled returns
\* without failing and leaves the request, its body stream included, as it was.
C11_ParsedAtMostOnce ==
    [][CallsFormOrFiles =>
          /\ Len(request'[1].parse_log) <= 1
          /\ filled(Req.form) =>
                /\ request' = request
                /\ pc' = "view"
                /\ escaped' = None]_vars

\* form() was called on a request with a form body: one parse, one drain
C11_Witness ==
    /\ filled(Req.form)
    /\ Len(Req.parse_log) = 1
    /\ Req.parse_log[1].body.chunks # <<>>
    /\ Req.body.reads = 1
    /\ Req.body.chunks = <<>>

\* C12: in every state between accessor calls the form cell is filled if and
\* only if the files cell is filled.
C12_FormIffFiles == filled(Req.form) <=> filled(Req.files)

\* both cells filled from a multipart body with a text part and a file part
C12_Witness ==
    /\ filled(Req.form) /\ filled(Req.files)
    /\ Req.form[1] # <<>>
    /\ Req.files[1] # <<>>

\* C13: once the args, form, files or JSON cell of a request is filled, no
\* step changes its value.
C13_FilledCellsFrozen ==
    [][/\ filled(Req.args) => request'[1].args = Req.args
       /\ filled(Req.form) => request'[1].form = Req.form
       /\ filled(Req.files) => request'[1].files = Req.files
       /\ filled(Req.cached_json) => request'[1].cached_json = Req.cached_json]_vars

\* all four cells filled with something, and the request served to its end
C13_Witness ==
    /\ pc = "closed"
    /\ filled(Req.args) /\ Req.args[1] # <<>>
    /\ filled(Req.form) /\ Req.form[1] # <<>>
    /\ filled(Req.files)
    /\ filled(Req.cached_json)

\* C14: get_json() on a request whose body arrives completely and is no JSON
\* document does not panic and fills the JSON cell with None; a later call
\* returns that None and does not drain the body again.
C14_GetJsonNoneOnDecodeFailure ==
    [][CallGetJson =>
          /\ (/\ ~filled(Req.cached_json)
              /\ ~Req.body.fails
              /\ json_from_slice(Flatten(Req.body.chunks)) = None)
                => /\ request'[1].cached_json = Some(None)
                   /\ escaped' = None
                   /\ pc' = "view"
          /\ Req.cached_json = Some(None)
                => /\ request' = request
                   /\ escaped' = None
                   /\ pc' = "view"]_vars

\* get_json() has read a body of bytes that are no JSON document
C14_Witness ==
    /\ Req.cached_json = Some(None)
    /\ Req.json_reads = 1
    /\ SentBytes # <<>>
    /\ json_from_slice(SentBytes) = None
    /\ Req.parse_log = <<>>

\* C15: the form and files cells hold what the parser makes of the request
\* as it was sent, and the JSON cell holds what the body as it was sent
\* decodes to, whichever accessor was called first.
C15_CachesIndependent ==
    /\ filled(Req.cached_json) => Req.cached_json = Some(json_from_slice(SentBytes))
    /\ filled(Req.form) =>
          /\ parse(Req.http.content_type, Req.http.body).res.ok
          /\ Req.form = Some(parse(Req.http.content_type, Req.http.body).res.v[1])
          /\ Req.files = Some(parse(Req.http.content_type, Req.http.body).res.v[2])

\* C16: when the parser fails under form() or files(), nothing escapes
\* handle_request and the request is on its way to a Response.
C16_ParseFailureHandled ==
    (\E call \in ParseCalls : ~call.res.ok) => (escaped = None /\ pc # "panicked")

\* C17: when draining the body fails for a urlencoded or multipart request,
\* parse returns StreamReadError and neither cell is filled.
C17_StreamReadError ==
    \A call \in ParseCalls :
        (IsFormType(call.content_type) /\ call.body.fails)
            => /\ call.res = Err("StreamReadError")
               /\ ~filled(Req.form) /\ ~filled(Req.files)

\* the connection dropped after some chunks of a form body
C17_Witness ==
    \E call \in ParseCalls :
        /\ IsFormType(call.content_type)
        /\ call.body.fails
        /\ call.body.chunks # <<>>
        /\ call.res = Err("StreamReadError")

\* C18 as stated: for a multipart/form-data request without a boundary
\* parameter parse returns NoBoundaryError for every body stream.
C18_NoBoundaryAlways ==
    \A call \in ParseCalls :
        (IsMultipart(call.content_type) /\ call.content_type[1].boundary = None)
            => call.res = Err("NoBoundaryError")

\* C18: for a multipart/form-data request without a boundary parameter parse
\* never returns Ok; it returns NoBoundaryError when the body stream was
\* drained without error and StreamReadError when draining failed.
C18_NoBoundaryAfterDrain ==
    \A call \in ParseCalls :
        (IsMultipart(call.content_type) /\ call.content_type[1].boundary = None)
            => /\ ~call.res.ok
               /\ ~call.body.fails => call.res = Err("NoBoundaryError")
               /\ call.body.fails => call.res = Err("StreamReadError")

\* a multipart body arrived completely, the content type has no boundary
C18_Witness ==
    \E call \in ParseCalls :
        /\ IsMultipart(call.content_type) /\ call.content_type[1].boundary = None
        /\ ~call.body.fails
        /\ call.body.chunks # <<>>
        /\ call.res = Err("NoBoundaryError")

\* the text parts of a multipart body: the positions of their header blocks
TextParts(toks) ==
    {i \in 2..Len(toks) :
        toks[i - 1] = Delimiter /\ IsHeader(toks[i]) /\ HeaderKind(toks[i]) = TextKind}

PartData(toks, i) == SubSeq(toks, i + 1, NextFraming(toks, i + 1) - 1)

\* the text parts, closed by a delimiter, whose bytes are no UTF-8
BadTextParts(toks) ==
    {i \in TextParts(toks) :
        NextFraming(toks, i + 1) <= Len(toks) /\ ~ValidUtf8From(PartData(toks, i), 1)}

\* the parts before position i whose header block is malformed
MalformedBefore(toks, i) ==
    {j \in 2..(i - 1) : toks[j - 1] = Delimiter /\ IsHeader(toks[j]) /\ HeaderKind(toks[j]) = BadKind}

\* a parse of a multipart body that arrived completely, boundary given
MultipartCalls ==
    {call \in ParseCalls :
        /\ IsMultipart(call.content_type)
        /\ call.content_type[1].boundary # None
        /\ ~call.body.fails}

\* C19 as stated: for every multipart body with a text part that is no valid
\* UTF-8 parse returns MultipartStringDecodingError, whatever precedes the part.
\* Stated for the bodies that arrive completely under a content type with a
\* boundary.
C19_DecodingErrorAlways ==
    \A call \in MultipartCalls :
        BadTextParts(Flatten(call.body.chunks)) # {}
            => call.res = Err("MultipartStringDecodingError")

\* C19: for every multipart body that arrives completely, under a content
\* type with a boundary, and has a text part, closed by a delimiter, that is
\* no valid UTF-8 and that no part with a malformed header block precedes,
\* parse returns MultipartStringDecodingError and fills neither cell,
\* whatever well-formed parts precede the part and whatever follows it.
C19_DecodingErrorUnlessMalformedFirst ==
    \A call \in MultipartCalls :
        (\E i \in BadTextParts(Flatten(call.body.chunks)) :
             MalformedBefore(Flatten(call.body.chunks), i) = {})
            => /\ call.res = Err("MultipartStringDecodingError")
               /\ ~filled(Req.form) /\ ~filled(Req.files)

\* a text part that is no UTF-8 between a well-formed text part and a file part
C19_Witness ==
    \E call \in MultipartCalls :
        /\ \E i \in BadTextParts(Flatten(call.body.chunks)) :
              /\ \E j \in TextParts(Flatten(call.body.chunks)) : j < i
              /\ \E j \in i + 1..Len(Flatten(call.body.chunks)) :
                    Flatten(call.body.chunks)[j] = PartHeader(3, FileKind)
        /\ call.res = Err("MultipartStringDecodingError")

\* C20: when the request has no content type, or one that is neither
\* application/x-www-form-urlencoded nor multipart/form-data, parse returns
\* Ok with an empty field map and an empty file map for every body, and both
\* cells are filled with them.
C20_OtherTypesEmpty ==
    \A call \in ParseCalls :
        ~IsFormType(call.content_type)
            => /\ call.res = Ok(<<MultiDictNew, MultiDictNew>>)
               /\ Req.form = Some(MultiDictNew)
               /\ Req.files = Some(MultiDictNew)

\* form() on an application/json request with a body
C20_Witness ==
    \E call \in ParseCalls :
        /\ call.content_type = Some(Mime("application", "json", None))
        /\ call.body.chunks # <<>>
        /\ call.res = Ok(<<MultiDictNew, MultiDictNew>>)
        /\ filled(Req.form)

---------------------------------------------------------------------------
(* Percent-encoded forms. *)

\* the application/x-www-form-urlencoded byte serializer: letters, digits and
\* * - . _ stay, a space becomes '+', every other byte %XY in upper-case hex
HexDigit(n) == IF n < 10 THEN 48 + n ELSE 55 + n

EncodeByte(b) ==
    IF (b >= 48 /\ b <= 57) \/ (b >= 65 /\ b <= 90) \/ (b >= 97 /\ b <= 122)
          \/ b \in {42, 45, 46, 95}
    THEN <<b>>
    ELSE IF b = 32 THEN <<43>>
    ELSE <<37, HexDigit(b \div 16), HexDigit(b % 16)>>

RECURSIVE byte_serialize(_)
byte_serialize(bs) ==
    IF bs = <<>> THEN <<>> ELSE EncodeByte(Head(bs)) \o byte_serialize(Tail(bs))

\* name=value of every pair, joined by '&'
RECURSIVE urlencode(_)
urlencode(seq) ==
    IF seq = <<>> THEN <<>>
    ELSE byte_serialize(seq[1][1]) \o <<61>> \o byte_serialize(seq[1][2])
           \o (IF Len(seq) = 1 THEN <<>> ELSE <<38>> \o urlencode(Tail(seq)))

\* sequences of (key, value): none; a key twice; x twice; names and values
\* with a space, '&', '=', '+', '%' and a two-byte character; an empty value
\* and a key that comes back after another
PairSeqs ==
    {<<>>,
     <<<<<<97>>, <<49>>>>, <<<<97>>, <<50>>>>>>,
     <<<<<<120>>, <<49>>>>, <<<<120>>, <<50>>>>>>,
     <<<<<<97>>, <<49>>>>, <<<<98>>, <<50>>>>>>,
     <<<<<<107, 32, 118>>, <<120, 38, 121, 61, 122>>>>, <<<<195, 169>>, <<43, 37>>>>>>,
     <<<<<<98>>, <<>>>>, <<<<97>>, <<49>>>>, <<<<98>>, <<50>>>>>>}

\* C21: for every sequence of (key, value) pairs, parsing the urlencoded body
\* that is the percent-encoding of the sequence gives a field map with exactly
\* the pairs of the sequence in their order, duplicate keys included, and an
\* empty file map; args() does the same for a query that is such an encoding.
C21_UrlencodedRoundTrip ==
    \A seq \in PairSeqs :
        /\ \A call \in ParseCalls :
              (/\ call.content_type = Some(Mime("application", "x-www-form-urlencoded", None))
               /\ ~call.body.fails
               /\ Flatten(call.body.chunks) = urlencode(seq))
                 => /\ call.res = Ok(<<seq, <<>>>>)
                    /\ Req.form = Some(seq)
                    /\ Req.files = Some(<<>>)
        /\ (filled(Req.args) /\ Req.http.query = Some(urlencode(seq)))
              => Req.args = Some(seq)

\* the form and the query with the escaped characters, both read
C21_Witness ==
    /\ \E call \in ParseCalls :
          /\ Flatten(call.body.chunks) = urlencode(<<<<<<107, 32, 118>>, <<120, 38, 121, 61, 122>>>>, <<<<195, 169>>, <<43, 37>>>>>>)
          /\ call.res = Ok(<<<<<<<<107, 32, 118>>, <<120, 38, 121, 61, 122>>>>, <<<<195, 169>>, <<43, 37>>>>>>, <<>>>>)
    /\ Req.form = Some(<<<<<<107, 32, 118>>, <<120, 38, 121, 61, 122>>>>, <<<<195, 169>>, <<43, 37>>>>>>)
    /\ Req.http.query = Some(urlencode(<<<<<<107, 32, 118>>, <<120, 38, 121, 61, 122>>>>, <<<<195, 169>>, <<43, 37>>>>>>))
    /\ Req.args = Some(<<<<<<107, 32, 118>>, <<120, 38, 121, 61, 122>>>>, <<<<195, 169>>, <<43, 37>>>>>>)

---------------------------------------------------------------------------
(* Well-formed multipart bodies. *)

\* delimiter, header block, data for every part, the closing delimiter last,
\* and every text part valid UTF-8
WellFormed(toks) ==
    /\ toks # <<>>
    /\ toks[Len(toks)] = CloseDelimiter
    /\ toks[1] = Delimiter
    /\ \A i \in 1..Len(toks) :
          /\ toks[i] = CloseDelimiter => i = Len(toks)
          /\ toks[i] = Delimiter =>
                IsHeader(toks[i + 1]) /\ HeaderKind(toks[i + 1]) \in {TextKind, FileKind}
          /\ IsHeader(toks[i]) => (i > 1 /\ toks[i - 1] = Delimiter)
    /\ BadTextParts(toks) = {}

\* the positions of the header blocks of the parts of one kind, in order
PartsOfKind(toks, kind) ==
    SelectSeq([i \in 1..Len(toks) |-> i],
              LAMBDA i : IsHeader(toks[i]) /\ HeaderKind(toks[i]) = kind)

\* the entries the parts of one kind stand for: declared name and data
EntriesOfKind(toks, kind) ==
    [j \in 1..Len(PartsOfKind(toks, kind)) |->
        <<HeaderName(toks[PartsOfKind(toks, kind)[j]]),
          PartData(toks, PartsOfKind(toks, kind)[j])>>]

\* C22: for every well-formed multipart body with N text parts and M file
\* parts parse returns a field map with exactly N entries and a file map
\* with exactly M entries, each under the declared field name of its part
\* and holding its data, in the order of the parts.
C22_MultipartPartsKept ==
    \A call \in MultipartCalls :
        WellFormed(Flatten(call.body.chunks))
            => /\ call.res.ok
               /\ Len(call.res.v[1]) = Len(PartsOfKind(Flatten(call.body.chunks), TextKind))
               /\ Len(call.res.v[2]) = Len(PartsOfKind(Flatten(call.body.chunks), FileKind))
               /\ call.res.v[1] = EntriesOfKind(Flatten(call.body.chunks), TextKind)
               /\ call.res.v[2] = EntriesOfKind(Flatten(call.body.chunks), FileKind)
               /\ Req.form = Some(call.res.v[1])
               /\ Req.files = Some(call.res.v[2])

\* three text parts, two of them named a, and one file part
C22_Witness ==
    \E call \in MultipartCalls :
        /\ WellFormed(Flatten(call.body.chunks))
        /\ call.res = Ok(<< << <<(<<97>>), (<<120>>)>>, <<(<<98>>), (<<>>)>>,
                               <<(<<97>>), (<<121, 122>>)>> >>,
                            << <<(<<102>>), (<<255, 0>>)>> >> >>)

---------------------------------------------------------------------------
(* The application object: registrations and what a request leaves of it. *)

\* the errors whose description is the key k
ErrorsUnder(k) ==
    {e \in {PenHTTPError(c) : c \in Codes} \cup {PenUserError(d) : d \in UserDescs} :
        description(e) = k}

Registers == \E k \in HandlerKeys, f \in HandlerResults : RegisterErrorHandler(k, f)

\* C23: after a registration of f under the key k the map holds exactly one
\* handler for k, namely f, the handlers under the other keys are the ones it
\* held before, and the error cascade answers an error with that description
\* from f; no other step changes the map.
C23_LastRegistrationWins ==
    [][/\ \A k \in HandlerKeys, f \in HandlerResults :
             RegisterErrorHandler(k, f) =>
                /\ DOMAIN error_handlers' = DOMAIN error_handlers \cup {k}
                /\ error_handlers'[k] = f
                /\ \A j \in DOMAIN error_handlers \ {k} : error_handlers'[j] = error_handlers[j]
                /\ \A e \in ErrorsUnder(k) :
                      /\ handle_user_error(error_handlers', e) = f
                      /\ handle_error(error_handlers', e) =
                            (IF f.ok THEN f.v ELSE PenResponse(to_response(InternalServerError)))
       /\ ~Registers => error_handlers' = error_handlers]_vars

\* two keys have a handler, and the one for Not Found answered a view's 404
C23_Witness ==
    /\ pc = "done"
    /\ DOMAIN error_handlers = {"Not Found", "boom"}
    /\ error_handlers["Not Found"] = Ok(PenString("handled"))
    /\ dispatched = Some(abort(404))
    /\ used = {"Not Found"}
    /\ response[1].body = "handledafter"

\* the Response of a request handled on its own: what full_dispatch_request
\* and handle_request make of the application a and the dispatch result d
AloneResponse(a, d) ==
    LET r == IF d.ok THEN d ELSE handle_user_error(a[4], d.e)
    IN  handle_request_result(a[4], full_dispatch_result(a[2], r)).response

---------------------------------------------------------------------------
(* The ordered multi-map Headers, under HeadersSpec. *)

TheHeaders == response[1].headers

SameKey(k1, k2) == to_ascii_lower(k1) = to_ascii_lower(k2)

\* the positions of the entries of a key, and the entries of the other keys
PositionsOf(list, key) == {i \in 1..Len(list) : SameKey(list[i][1], key)}
OthersOf(list, key) == SelectSeq(list, LAMBDA kv : ~SameKey(kv[1], key))

FirstOf(list, key) ==
    CHOOSE i \in PositionsOf(list, key) : \A j \in PositionsOf(list, key) : i <= j

\* what holds of set(key, value) whatever the position of the new entry
SetKeepsOneEntry(old, new, key, value) ==
    /\ Cardinality(PositionsOf(new, key)) = 1
    /\ new[FirstOf(new, key)] = <<key, value>>
    /\ OthersOf(new, key) = OthersOf(old, key)

\* C29 as stated: after set(k, v) exactly one entry has key k, its value is
\* v, it is the last entry in iteration order, and the entries of the other
\* keys keep their values and relative order.
C29_SetAppends ==
    \A k \in HeaderKeys, v \in HeaderValues :
        /\ SetKeepsOneEntry(TheHeaders, HeadersSet(TheHeaders, k, v), k, v)
        /\ HeadersIter(HeadersSet(TheHeaders, k, v))[Len(HeadersSet(TheHeaders, k, v))] = <<k, v>>

\* C29: after set(k, v) exactly one entry has key k (compared without case),
\* its value is v, and the entries of the other keys keep their values and
\* relative order; the entry is the last one when no entry had the key
\* before, and otherwise stands where the first entry of the key stood.
C29_SetReplacesInPlace ==
    \A k \in HeaderKeys, v \in HeaderValues :
        /\ SetKeepsOneEntry(TheHeaders, HeadersSet(TheHeaders, k, v), k, v)
        /\ PositionsOf(TheHeaders, k) = {}
              => FirstOf(HeadersSet(TheHeaders, k, v), k) = Len(TheHeaders) + 1
        /\ PositionsOf(TheHeaders, k) # {}
              => FirstOf(HeadersSet(TheHeaders, k, v), k) = FirstOf(TheHeaders, k)

\* set was called for a key that had two entries with an entry of another
\* key after them: the new entry stands first, the other entry after it
C29_Witness ==
    /\ TheHeaders = << <<"Content-Type", "b">>, <<"Location", "a">> >>
    /\ HeadersSet(<< <<"content-type", "a">>, <<"Content-Type", "a">>, <<"Location", "a">> >>,
                  "Content-Type", "b") = TheHeaders

C31_RemoveReturnsFirst ==
    [][\A k \in HeaderKeys :
          HeadersRemoveCall(k) =>
              /\ response'[1].headers = OthersOf(TheHeaders, k)
              /\ PositionsOf(TheHeaders, k) = {} => rv' = None
              /\ PositionsOf(TheHeaders, k) # {}
                    => rv' = Some(TheHeaders[FirstOf(TheHeaders, k)][2])]_vars

---------------------------------------------------------------------------
(* The setters of a Response, under ResponseSpec. *)

TheResponse == response[1]

LowerChar(c) ==
    CASE c = "C" -> "c" [] c = "H" -> "h" [] c = "A" -> "a" [] c = "R" -> "r"
      [] c = "S" -> "s" [] c = "E" -> "e" [] c = "T" -> "t" [] OTHER -> c

\* the type has a parameter named charset, the name compared without case
HasCharsetParam(m) ==
    \E i \in 1..Len(m), j \in 1..Len(m) :
        /\ m[i] = ";"
        /\ i < j
        /\ \A x \in (i + 1)..(j - 1) : m[x] = " "
        /\ j + 7 <= Len(m)
        /\ [x \in 1..7 |-> LowerChar(m[j + x - 1])] = <<"c","h","a","r","s","e","t">>
        /\ m[j + 7] = "="

\* a type that gets the charset: text/*, application/xml or application/*+xml
\* without a charset parameter
WantsCharset(m) ==
    /\ \/ starts_with(m, <<"t","e","x","t","/">>)
       \/ m = <<"a","p","p","l","i","c","a","t","i","o","n","/","x","m","l">>
       \/ starts_with(m, <<"a","p","p","l","i","c","a","t","i","o","n","/">>) /\ ends_with(m, <<"+","x","m","l">>)
    /\ ~HasCharsetParam(m)

\* C25: set_content_type stores the type with '; charset=UTF-8' appended
\* exactly when it is text/*, application/xml or application/*+xml and has
\* no charset parameter, and stores every other type, and every type that
\* has a charset, as it is.
C25_CharsetAppended ==
    [][\A m \in Mimetypes :
          SetContentType(m) =>
              HeadersGet(response'[1].headers, "Content-Type")
                  = Some(Str(IF WantsCharset(m)
                             THEN m \o <<";"," ","c","h","a","r","s","e","t","=","U","T","F","-","8">>
                             ELSE m))]_vars

\* the headers other than the setter's own, and the rest of the Response
SameButHeader(r, r2, own) ==
    /\ r2.status_code = r.status_code
    /\ r2.body = r.body
    /\ OthersOf(r2.headers, own) = OthersOf(r.headers, own)
    /\ \A n \in {"Content-Type", "Content-Length", "Set-Cookie"} \ {own} :
          HeadersGet(r2.headers, n) = HeadersGet(r.headers, n)

\* C26: set_content_type, set_content_length and set_cookie each change
\* their own header only: status code, body and every other header of the
\* Response stay as they are, in whatever order the setters were called.
C26_SettersIndependent ==
    /\ \A m \in Mimetypes :
          /\ SameButHeader(TheResponse, set_content_type(TheResponse, m), "Content-Type")
          /\ HeadersGet(set_content_type(TheResponse, m).headers, "Content-Type") # None
    /\ \A n \in 0..MaxContentLength :
          /\ SameButHeader(TheResponse, set_content_length(TheResponse, n), "Content-Length")
          /\ HeadersGet(set_content_length(TheResponse, n).headers, "Content-Length")
                = Some(to_string(n))
    /\ \A c \in Cookies :
          /\ SameButHeader(TheResponse, set_cookie(TheResponse, c), "Set-Cookie")
          /\ HeadersGet(set_cookie(TheResponse, c).headers, "Set-Cookie") = Some(c)

\* all three setters were called on the Response of a two-byte body, the
\* content length set away from the length of the body
C26_Witness ==
    /\ TheResponse.body = "hi"
    /\ HeadersGet(TheResponse.headers, "Content-Type") = Some("application/json")
    /\ HeadersGet(TheResponse.headers, "Content-Length") = Some("0")
    /\ HeadersGet(TheResponse.headers, "Set-Cookie") = Some("b=2")

---------------------------------------------------------------------------
(* Byte ranges of a file, under FileSpec. *)

\* the file a call of send_file_range named: its bytes and their number
Sent == (CHOOSE f \in fs : f.path = events[1].filepath).bytes
SentLen == Len(Sent)

\* the last call named a file of the directory and gave the one range lo-hi
CalledWith(lo, hi) ==
    /\ events # <<>>
    /\ \E f \in fs : f.path = events[1].filepath
    /\ events[1].range = Some(<<<<lo, hi>>>>)

\* C27: for one range start-end with 0 <= start <= end < len, send_file_range
\* returns status 206, the end-start+1 bytes of the range and the header
\* Content-Range 'bytes start-end/len' with len the length of the file; for
\* the open range 'start-' it returns the final len-start bytes.
C27_RangeOfFile ==
    \A start \in 0..MaxFileLen :
        /\ \A end \in start..MaxFileLen :
              (CalledWith(<<"Included", start>>, <<"Included", end>>) /\ end < SentLen) =>
                  /\ rv # None
                  /\ rv[1].ok
                  /\ rv[1].v.status_code = 206
                  /\ rv[1].v.body = SubSeq(Sent, start + 1, end + 1)
                  /\ HeadersGet(rv[1].v.headers, "Content-Range")
                        = Some("bytes " \o to_string(start) \o "-" \o to_string(end)
                                 \o "/" \o to_string(SentLen))
        /\ (CalledWith(<<"Included", start>>, <<"Unbounded">>) /\ start < SentLen) =>
              /\ rv # None
              /\ rv[1].ok
              /\ rv[1].v.body = SubSeq(Sent, start + 1, SentLen)

\* the last call named a file of the directory and gave one range whose
\* start lies at or beyond the end of the file
CalledUnsatisfiable ==
    \E start \in 0..(MaxFileLen + 1) :
        /\ \/ CalledWith(<<"Included", start>>, <<"Unbounded">>)
           \/ \E end \in start..(MaxFileLen + 1) :
                 CalledWith(<<"Included", start>>, <<"Included", end>>)
        /\ start >= SentLen

\* the last call named a file of the directory and gave two ranges or more
CalledMultiRange ==
    /\ events # <<>>
    /\ \E f \in fs : f.path = events[1].filepath
    /\ events[1].range # None
    /\ Len(events[1].range[1]) > 1

\* C28: when the Range header is unsatisfiable for the file or lists more
\* than one range, send_file_range returns a Response of status 200 whose
\* body is the whole file and whose Content-Length is the file's length.
C28_FullFallback ==
    (CalledUnsatisfiable \/ CalledMultiRange) =>
        /\ rv # None
        /\ rv[1].ok
        /\ rv[1].v.status_code = 200
        /\ rv[1].v.body = Sent
        /\ HeadersGet(rv[1].v.headers, "Content-Length") = Some(to_string(SentLen))

---------------------------------------------------------------------------
(* Files served from a directory, under DirSpec. *)

\* the components of a path with every '..' resolved against the component
\* before it; a '..' that has none before it stays
RECURSIVE Resolved(_, _, _)
Resolved(comps, i, acc) ==
    IF i > Len(comps) THEN acc
    ELSE IF comps[i] = ".." /\ acc # <<>> /\ acc[Len(acc)] # ".."
         THEN Resolved(comps, i + 1, SubSeq(acc, 1, Len(acc) - 1))
    ELSE Resolved(comps, i + 1, Append(acc, comps[i]))

\* the filename of the call and what safe_join makes of it
Asked == events[1].filename
Joined == safe_join(<<"s","t","a","t","i","c">>, Asked)

\* C32: whenever safe_join(directory, filename) returns a path, the path lies
\* inside directory once its '..' components are resolved; an absolute
\* filename, '..' and a filename starting with '../' give None; and a file
\* send_from_directory serves is a file inside directory.
C32_StaysInsideDirectory ==
    pc = "sent" =>
        /\ Joined # None =>
              LET at == Resolved(Components(Joined[1], 1, ""), 1, <<>>)
              IN  at # <<>> /\ at[1] = "static"
        /\ (Asked[1] = "/" \/ Asked = <<".", ".">> \/ starts_with(Asked, <<".", ".", "/">>))
              => Joined = None
        /\ rv[1].ok =>
              \E f \in fs : /\ f.bytes = rv[1].v.body
                            /\ SubSeq(f.path, 1, 2) = <<"srv", "static">>

---------------------------------------------------------------------------
(* The Response handle_request returns, under Spec. *)

\* C33: every Response handle_request returns carries a Content-Length
\* header that equals the byte length of its body, also when post-request
\* hooks have changed the body.
C33_ContentLengthOfBody ==
    response # None =>
        HeadersGet(response[1].headers, "Content-Length")
            = Some(to_string(Len(response[1].body)))

---------------------------------------------------------------------------
(* The error cascade of handle_request, under Spec. *)

\* C34: the error cascade of a request ends after at most two lookups of a
\* handler.  The lookup of handle_user_error or handle_http_error is made
\* once, on the error the dispatch returned, and full_dispatch_request
\* returns after it; the lookup of handle_error is made once, on the error
\* full_dispatch_request returned, and handle_request returns a Response
\* after it whatever the handler was.  The error a handler gives is never
\* handed to the step that fetched the handler.
C34_CascadeEnds ==
    [][/\ HandleUserError =>
             /\ pc' = "dispatched"
             /\ dispatched' = dispatched
             /\ rv' = Some(handle_user_error(error_handlers, dispatched[1].e))
       /\ HandleRequestReturn =>
             /\ pc' = "done"
             /\ fd' = fd
             /\ escaped' = None
             /\ response' # None
       /\ (pc' = "user_error" /\ pc # "user_error") => pc = "dispatch"
       /\ (pc' = "returning" /\ pc # "returning") => pc = "dispatched"
       /\ (pc = "done" /\ pc' # "done") => pc' \in {"request", "closed"}
       /\ Cardinality(used') <= 2]_vars

\* two handlers that name each other: the view's 404 fetched the handler of
\* "Not Found", its error "boom" fetched the handler of "boom" in
\* handle_error, whose error 404 ended the cascade as the status 500
C34_Witness ==
    /\ pc = "done"
    /\ dispatched # None
    /\ dispatched[1] = abort(404)
    /\ DOMAIN error_handlers = {"Not Found", "boom"}
    /\ error_handlers["Not Found"] = Err(PenUserError("boom"))
    /\ error_handlers["boom"] = abort(404)
    /\ rv = Some(Err(PenUserError("boom")))
    /\ used = {"Not Found", "boom"}
    /\ response # None
    /\ response[1].status_code = 500

---------------------------------------------------------------------------
(* A failed parse and the cells, under ReqSpec. *)

\* C35: when the body parser fails during a form() or files() call, neither
\* the form cell nor the files cell is filled: nothing of what the parser had
\* read is cached, and both cells stay empty.
C35_FailedParseCachesNothing ==
    /\ (\E call \in ParseCalls : ~call.res.ok) =>
          /\ Req.form = None
          /\ Req.files = None
    /\ \A call \in ParseCalls : call.res.ok =>
          /\ Req.form = Some(call.res.v[1])
          /\ Req.files = Some(call.res.v[2])

\* the parser had read a text part when it failed on the next one: the
\* accessor panicked and the two cells are empty
C35_Witness ==
    /\ pc = "panicked"
    /\ \E call \in MultipartCalls :
          /\ ~call.res.ok
          /\ \E i \in BadTextParts(Flatten(call.body.chunks)) :
                \E j \in TextParts(Flatten(call.body.chunks)) : j < i
    /\ Req.form = None
    /\ Req.files = None

====
